---- MODULE Spec2Model ----
(***************************************************************************)
(* A model of the client programs of the repository:                       *)
(*   - the page component PragyanAI            (frontend_prayan page.tsx)  *)
(*   - the audio helper EnhancedAudioInput     (frontend_prayan page.tsx)  *)
(*   - the manual input handler ManualInputHandler   (unnamed/part_000)    *)
(*   - the camera scanner ARCameraScanner                 (ar-camera.js)   *)
(* Each program owns its own state and shares none with the others, so a   *)
(* behaviour of the model is a behaviour of one of them: `loaded' names    *)
(* the page whose script runs.  Handlers run to their first await in one   *)
(* step; every continuation after an await is a step of its own.           *)
(***************************************************************************)
EXTENDS Integers, Sequences, FiniteSets, TLC

\* ---------------------------------------------------------------- bounds
\* recordings the page component starts in one behaviour
MaxRecordings == 2
\* getUserMedia calls and fetches the scanner makes in one behaviour
MaxCalls == 2
\* getUserMedia calls the audio helper makes in one behaviour
MaxMicCalls == 3
\* MediaRecorder objects the audio helper constructs in one behaviour
MaxRecorders == 2

\* ------------------------------------------------------- optional values
\* null / undefined is the empty sequence, a present value x is <<x>>
NULL == <<>>
Some(x) == <<x>>
IsNull(o) == o = <<>>
Val(o) == o[1]

\* JavaScript a || b on optional strings
OrElse(a, b) == IF IsNull(a) THEN b ELSE a

\* Removal of the i-th element of a sequence (a finished continuation)
RemoveAt(s, i) == [j \in 1..(Len(s) - 1) |-> IF j < i THEN s[j] ELSE s[j + 1]]

\* ------------------------------------------------------ backend responses
\* What a fetch can produce: a rejection (network failure, or a body that
\* response.json() cannot parse), or a JSON body together with the HTTP
\* status class.  A failure body carries any of error_message, error,
\* message and suggestions; a success body of a generation endpoint carries
\* video URLs, one of an analysis endpoint carries the detected candidates.
UrlSets == {{}, {"original"}, {"narrated", "original"},
            {"narrated", "original", "cloud_original"}}

Rejection == [kind |-> "reject", httpOk |-> FALSE, success |-> FALSE,
              error_message |-> NULL, error |-> NULL, message |-> NULL,
              suggestions |-> NULL, urls |-> {}, topics |-> 0]

\* text-to-video, voice-to-video, generate-content
GenResponses ==
    {Rejection}
    \cup [kind : {"json"}, httpOk : BOOLEAN, success : {FALSE},
          error_message : {NULL, Some("EM")}, error : {NULL, Some("E")},
          message : {NULL}, suggestions : {NULL, Some("backend")},
          urls : {{}}, topics : {0}]
    \cup [kind : {"json"}, httpOk : BOOLEAN, success : {TRUE},
          error_message : {NULL}, error : {NULL}, message : {NULL},
          suggestions : {NULL}, urls : UrlSets, topics : {0}]

\* analyze-educational-image as the page component reads it
\* (options.topics.length is `topics')
PageAnalysisResponses ==
    {Rejection}
    \cup [kind : {"json"}, httpOk : BOOLEAN, success : {FALSE},
          error_message : {NULL, Some("EM")}, error : {NULL, Some("E")},
          message : {NULL}, suggestions : {NULL, Some("backend")},
          urls : {{}}, topics : {0}]
    \cup [kind : {"json"}, httpOk : BOOLEAN, success : {TRUE},
          error_message : {NULL}, error : {NULL}, message : {NULL},
          suggestions : {NULL}, urls : {{}}, topics : {0, 1}]

\* ------------------------------------------------------------- variables
VARIABLES
    loaded,             \* which page's script runs: "app", "manual", "scanner"
    \* --- page component (page.tsx, PragyanAI)
    inputText, selectedLanguage, complexity, includeNarration, inputMode,
    selectedImage,
    isRecording, recordedAudio, mediaRecorder, stopEvents,
    isGenerating, result,
    pageTasks,          \* pending continuations of the async workflows
    pageAlert,          \* text of the alert() on screen, NULL when none
    \* --- manual input handler (ManualInputHandler)
    manualText,         \* inputText.value
    complexitySelect,   \* value of the #complexity selector
    detectBtn,          \* [display, disabled, textContent] of detectBtn
    formDisplay, loadingDisplay, resultsDisplay, detectionDisplay,
    steps,              \* class of #step-1 .. #step-5
    videoContent,       \* the video URLs displayResults rendered, NULL before
    manualTasks,        \* pending continuations of detectInputType / handleSubmit
    manualAlert,        \* [text, then] of the alert() on screen, NULL when none
    \* --- camera scanner (ARCameraScanner)
    stream,             \* this.stream: NULL or the acquired stream
    liveStreams,        \* the acquired streams with a track still running
    pendingMedia,       \* getUserMedia calls not yet settled
    controls,           \* style.display of the buttons and of the camera feed
    isSelecting, selectedRegion,
    analysisResult, confirmationData,
    overlay,            \* #confirmation-overlay: NULL or its content
    arLoading,          \* style.display of #ar-loading
    arResults,          \* [display, video] of #ar-results and #ar-video
    requests,           \* fetches in flight
    timers,             \* callbacks scheduled with setTimeout
    scannerAlert,       \* text of the alert() on screen, NULL when none
    issued,             \* history: fetches and getUserMedia calls so far, and
                        \* the analysis requests that were pending at a clear
    captures            \* history: capture and upload actions so far

VARIABLES
    \* --- audio helper (page.tsx, EnhancedAudioInput)
    selectedDeviceId,
    audioContext,       \* this.audioContext: NULL or the stream it monitors
    openContexts,       \* the audio contexts not closed
    currentStream,      \* this.currentStream: NULL or a stream
    audioMediaRecorder, \* this.mediaRecorder: NULL or a recorder of `recorders'
    audioChunks,        \* this.audioChunks: the recorders whose data it holds
    audioIsRecording,   \* this.isRecording
    onRecordingComplete,\* a completion callback is registered
    deviceSelector,     \* #audio-device-selector is in the document
    audioLevelText,     \* textContent of #audio-level-text
    micStreams,         \* the microphone streams with a track still running
    micPending,         \* getUserMedia calls not yet settled
    micCalls,           \* history: getUserMedia calls so far
    recorders,          \* the MediaRecorder objects constructed, in order
    recorderEvents,     \* recorders whose stop event is queued
    completions,        \* history: invocations of the completion callback
    startErrors,        \* history: startRecording calls that ended in an error
    redrawLoops         \* the waveform redraw loops scheduled on every frame

audioVars == <<selectedDeviceId, audioContext, openContexts, currentStream,
               audioMediaRecorder, audioChunks, audioIsRecording,
               onRecordingComplete, deviceSelector, audioLevelText,
               micStreams, micPending, micCalls, recorders, recorderEvents,
               completions, startErrors, redrawLoops>>

pageInputs == <<inputText, selectedLanguage, complexity, includeNarration,
                inputMode, selectedImage>>
pageRec == <<isRecording, recordedAudio, mediaRecorder, stopEvents>>
pageGen == <<isGenerating, result, pageTasks>>
pageVars == <<pageInputs, pageRec, pageGen, pageAlert>>

manualDom == <<formDisplay, loadingDisplay, resultsDisplay, detectionDisplay,
               steps, videoContent>>
manualVars == <<manualText, complexitySelect, detectBtn, manualDom,
                manualTasks, manualAlert>>

cameraVars == <<stream, liveStreams, pendingMedia, controls>>
selectionVars == <<isSelecting, selectedRegion>>
analysisVars == <<analysisResult, confirmationData, overlay>>
workVars == <<arLoading, arResults, requests, timers, issued, captures>>
scannerVars == <<cameraVars, selectionVars, analysisVars, workVars,
                 scannerAlert>>

vars == <<loaded, pageVars, manualVars, scannerVars, audioVars>>

\* ------------------------------------------------------------ input texts
\* the empty text, whitespace only (1 and 11 characters), a short and a
\* longer request
InputTexts == {"", " ", "Explain photosynthesis"}
ManualTexts == {"", "           ", "Add 2+3", "Explain photosynthesis"}
\* String.prototype.trim
Trim(t) == IF t \in {" ", "           "} THEN "" ELSE t
\* String.prototype.length
Length(t) ==
    CASE t = "" -> 0
      [] t = " " -> 1
      [] t = "           " -> 11
      [] t = "Add 2+3" -> 7
      [] t = "Explain photosynthesis" -> 22

\* =================================================== the page component
\* the values the settings widgets are set to: <<language, complexity, narration>>
SettingsChoices == {<<"auto", "intermediate", TRUE>>, <<"hindi", "advanced", FALSE>>}
InputModes == {"text", "voice", "image"}

PageInit ==
    /\ inputText = ""
    /\ selectedLanguage = "auto"
    /\ includeNarration = TRUE
    /\ complexity = "intermediate"
    /\ inputMode = "text"
    /\ isRecording = FALSE
    /\ recordedAudio = NULL
    /\ mediaRecorder = 0
    /\ stopEvents = {}
    /\ isGenerating = FALSE
    /\ result = NULL
    /\ selectedImage = NULL
    /\ pageTasks = <<>>
    /\ pageAlert = NULL

\* A pending continuation, with what its request body is built from: the
\* values the handler's closure saw when Generate was clicked.  The text
\* request sends text, language, complexity and include_narration; the voice
\* request the recorded blob and the language; the image workflow the image
\* and then, for its text-to-video request, language, complexity and
\* include_narration.
PageTask(kind, blob) ==
    [kind |-> kind,
     text |-> IF kind = "text_fetch" THEN inputText ELSE "",
     language |-> selectedLanguage,
     complexity |-> IF kind = "voice_read" THEN "" ELSE complexity,
     include_narration |-> IF kind = "voice_read" THEN FALSE ELSE includeNarration,
     blob |-> blob]

\* the object the client passes to setResult for a failure (the heading
\* error_type is the client's literal; a backend error_type is not modelled)
ErrorResult(type, msg, sugg) ==
    [success |-> FALSE, error_type |-> type, error_message |-> msg,
     error |-> NULL, suggestions |-> sugg, urls |-> {}]

\* setResult(data) for a success body
DataResult(data) ==
    [success |-> TRUE, error_type |-> "", error_message |-> data.error_message,
     error |-> data.error, suggestions |-> data.suggestions, urls |-> data.urls]

\* the page component's script runs; while an alert box is open nothing else does
AppRuns == loaded = "app" /\ IsNull(pageAlert)

\* ---- input widgets
SetInputMode(m) ==
    /\ AppRuns
    /\ inputMode' = m
    /\ UNCHANGED <<loaded, audioVars, manualVars, scannerVars, inputText, selectedLanguage, complexity, includeNarration,
                   selectedImage, pageRec, pageGen, pageAlert>>

SetInputText(t) ==
    /\ AppRuns
    /\ inputMode = "text"
    /\ inputText' = t
    /\ UNCHANGED <<loaded, audioVars, manualVars, scannerVars, selectedLanguage, complexity, includeNarration, inputMode,
                   selectedImage, pageRec, pageGen, pageAlert>>

\* the language and complexity selectors and the narration checkbox
SetSettings(s) ==
    /\ AppRuns
    /\ selectedLanguage' = s[1]
    /\ complexity' = s[2]
    /\ includeNarration' = s[3]
    /\ UNCHANGED <<loaded, audioVars, manualVars, scannerVars, inputText, inputMode, selectedImage, pageRec, pageGen,
                   pageAlert>>

\* handleImageUpload: a chosen file replaces the selection (the preview and
\* the stored analysis, which only the preview shows, are not modelled);
\* no file chosen changes nothing.
PageHandleImageUpload(file) ==
    /\ AppRuns
    /\ inputMode = "image"
    /\ selectedImage' = IF IsNull(file) THEN selectedImage ELSE file
    /\ UNCHANGED <<loaded, audioVars, manualVars, scannerVars, inputText, selectedLanguage, complexity, includeNarration,
                   inputMode, pageRec, pageGen, pageAlert>>

\* ---- voice recording (startRecording / stopRecording of the component)
\* startRecording: the recorder is created and started, or acquiring the
\* microphone throws and an alert is shown.  Recording n yields blob n.
PageStartRecording(granted) ==
    /\ AppRuns
    /\ inputMode = "voice"
    /\ ~isRecording
    /\ mediaRecorder < MaxRecordings
    /\ IF granted
       THEN /\ mediaRecorder' = mediaRecorder + 1
            /\ isRecording' = TRUE
            /\ UNCHANGED pageAlert
       ELSE /\ pageAlert' = Some("Microphone access denied")
            /\ UNCHANGED <<mediaRecorder, isRecording>>
    /\ UNCHANGED <<loaded, audioVars, manualVars, scannerVars, pageInputs, recordedAudio, stopEvents, pageGen>>

\* stopRecording: stops the current recorder; its stop event is delivered later
PageStopRecording ==
    /\ AppRuns
    /\ inputMode = "voice"
    /\ isRecording
    /\ mediaRecorder # 0
    /\ stopEvents' = stopEvents \cup {mediaRecorder}
    /\ isRecording' = FALSE
    /\ UNCHANGED <<loaded, audioVars, manualVars, scannerVars, pageInputs, recordedAudio, mediaRecorder, pageGen, pageAlert>>

\* the recorder's stop event: the completion callback stores the blob
PageRecorderOnStop(n) ==
    /\ AppRuns
    /\ n \in stopEvents
    /\ stopEvents' = stopEvents \ {n}
    /\ recordedAudio' = Some(n)
    /\ UNCHANGED <<loaded, audioVars, manualVars, scannerVars, pageInputs, isRecording, mediaRecorder, pageGen, pageAlert>>

\* the user dismisses the alert box
PageDismissAlert ==
    /\ loaded = "app"
    /\ ~IsNull(pageAlert)
    /\ pageAlert' = NULL
    /\ UNCHANGED <<loaded, audioVars, manualVars, scannerVars, pageInputs, pageRec, pageGen>>

\* ---- the Generate button
GenerateDisabled ==
    \/ isGenerating
    \/ inputMode = "text" /\ Trim(inputText) = ""
    \/ inputMode = "voice" /\ IsNull(recordedAudio)
    \/ inputMode = "image" /\ IsNull(selectedImage)

\* generateVideoFromText up to its await: the text-to-video request is issued
GenerateVideoFromText ==
    IF Trim(inputText) = ""
    THEN UNCHANGED pageGen
    ELSE /\ isGenerating' = TRUE
         /\ result' = NULL
         /\ pageTasks' = Append(pageTasks, PageTask("text_fetch", 0))

\* generateVideoFromVoice up to readAsDataURL: the FileReader starts reading
GenerateVideoFromVoice ==
    IF IsNull(recordedAudio)
    THEN UNCHANGED pageGen
    ELSE /\ isGenerating' = TRUE
         /\ result' = NULL
         /\ pageTasks' = Append(pageTasks,
                                PageTask("voice_read", Val(recordedAudio)))

\* analyzeImage up to readAsDataURL (result is not cleared here)
AnalyzeImage ==
    IF IsNull(selectedImage)
    THEN UNCHANGED pageGen
    ELSE /\ isGenerating' = TRUE
         /\ pageTasks' = Append(pageTasks,
                                PageTask("image_read", Val(selectedImage)))
         /\ UNCHANGED result

HandleGenerate ==
    /\ AppRuns
    /\ ~GenerateDisabled
    /\ CASE inputMode = "text" -> GenerateVideoFromText
         [] inputMode = "voice" -> GenerateVideoFromVoice
         [] inputMode = "image" -> AnalyzeImage
    /\ UNCHANGED <<loaded, audioVars, manualVars, scannerVars, pageInputs, pageRec, pageAlert>>

\* ---- continuations of the generation workflows
DefaultSuggestions == Some("default")

\* the catch block's object: error.message of the rejection
CaughtResult(type) == ErrorResult(type, Some("exception"), DefaultSuggestions)

\* generateVideoFromText after the await: try / catch / finally
TextResponse(i, resp) ==
    /\ AppRuns
    /\ pageTasks[i].kind = "text_fetch"
    /\ pageTasks' = RemoveAt(pageTasks, i)
    /\ result' = Some(
         IF resp.kind = "reject" THEN CaughtResult("Network Error")
         ELSE IF resp.success THEN DataResult(resp)
         ELSE ErrorResult("Generation Error",
                OrElse(OrElse(resp.error_message, resp.error),
                       Some("Text generation failed")),
                OrElse(resp.suggestions, DefaultSuggestions)))
    /\ isGenerating' = FALSE
    /\ UNCHANGED <<loaded, audioVars, manualVars, scannerVars, pageInputs, pageRec, pageAlert>>

\* reader.onload of generateVideoFromVoice up to its await: the
\* voice-to-video request is issued
VoiceReaderLoad(i) ==
    /\ AppRuns
    /\ pageTasks[i].kind = "voice_read"
    /\ pageTasks' = [pageTasks EXCEPT ![i].kind = "voice_fetch"]
    /\ UNCHANGED <<loaded, audioVars, manualVars, scannerVars, pageInputs, pageRec, isGenerating, result, pageAlert>>

\* reader.onload of generateVideoFromVoice after the await.  The callback is
\* not inside the function's try block: a rejection ends it with nothing set.
VoiceResponse(i, resp) ==
    /\ AppRuns
    /\ pageTasks[i].kind = "voice_fetch"
    /\ pageTasks' = RemoveAt(pageTasks, i)
    /\ IF resp.kind = "reject"
       THEN UNCHANGED <<result, isGenerating>>
       ELSE /\ result' = Some(
                 IF resp.success THEN DataResult(resp)
                 ELSE ErrorResult("Voice Processing Error",
                        OrElse(OrElse(resp.error_message, resp.error),
                               Some("Voice generation failed")),
                        OrElse(resp.suggestions, DefaultSuggestions)))
            /\ isGenerating' = FALSE
    /\ UNCHANGED <<loaded, audioVars, manualVars, scannerVars, pageInputs, pageRec, pageAlert>>

\* reader.onload of analyzeImage issuing the analysis request and the
\* text-to-video request together
ImageReaderLoadBothRequests(i) ==
    /\ AppRuns
    /\ pageTasks[i].kind = "image_read"
    /\ pageTasks' = Append([pageTasks EXCEPT ![i].kind = "image_fetch"],
                           PageTask("imggen_fetch", pageTasks[i].blob))
    /\ UNCHANGED <<loaded, audioVars, manualVars, scannerVars, pageInputs, pageRec, isGenerating, result, pageAlert>>

\* reader.onload of analyzeImage up to its await: the analysis request is issued
ImageReaderLoad(i) ==
    /\ AppRuns
    /\ pageTasks[i].kind = "image_read"
    /\ pageTasks' = [pageTasks EXCEPT ![i].kind = "image_fetch"]
    /\ UNCHANGED <<loaded, audioVars, manualVars, scannerVars, pageInputs, pageRec, isGenerating, result, pageAlert>>

\* an analysis response that releases isGenerating before the follow-on
\* text-to-video request has completed
ImageResponseReleasesEarly(i, resp) ==
    /\ AppRuns
    /\ pageTasks[i].kind = "image_fetch"
    /\ IF resp.kind = "reject"
       THEN /\ pageTasks' = RemoveAt(pageTasks, i)
            /\ UNCHANGED <<result, isGenerating>>
       ELSE IF resp.success /\ resp.topics > 0
       THEN /\ pageTasks' = [pageTasks EXCEPT ![i].kind = "imggen_fetch"]
            /\ isGenerating' = FALSE
            /\ UNCHANGED result
       ELSE /\ pageTasks' = RemoveAt(pageTasks, i)
            /\ result' = Some(ErrorResult("Image Analysis Error",
                  OrElse(resp.error,
                         Some("Could not analyze the image content")),
                  DefaultSuggestions))
            /\ isGenerating' = FALSE
    /\ UNCHANGED <<loaded, audioVars, manualVars, scannerVars, pageInputs, pageRec, pageAlert>>

\* reader.onload of analyzeImage after the await (it is not inside the
\* function's try block either).  With a topic in a success body
\* generateVideoFromAnalyzedImage runs to its own await at once: the
\* text-to-video request is issued in the same step.
ImageResponse(i, resp) ==
    /\ AppRuns
    /\ pageTasks[i].kind = "image_fetch"
    /\ IF resp.kind = "reject"
       THEN /\ pageTasks' = RemoveAt(pageTasks, i)
            /\ UNCHANGED <<result, isGenerating>>
       ELSE IF resp.success /\ resp.topics > 0
       THEN /\ pageTasks' = [pageTasks EXCEPT ![i].kind = "imggen_fetch"]
            /\ UNCHANGED <<result, isGenerating>>
       ELSE /\ pageTasks' = RemoveAt(pageTasks, i)
            /\ result' = Some(ErrorResult("Image Analysis Error",
                  OrElse(resp.error,
                         Some("Could not analyze the image content")),
                  DefaultSuggestions))
            /\ isGenerating' = FALSE
    /\ UNCHANGED <<loaded, audioVars, manualVars, scannerVars, pageInputs, pageRec, pageAlert>>

\* generateVideoFromAnalyzedImage after the await: try / catch / finally
ImageGenResponse(i, resp) ==
    /\ AppRuns
    /\ pageTasks[i].kind = "imggen_fetch"
    /\ pageTasks' = RemoveAt(pageTasks, i)
    /\ result' = Some(
         IF resp.kind = "reject" THEN CaughtResult("Generation Error")
         ELSE IF resp.success THEN DataResult(resp)
         ELSE ErrorResult("Video Generation Error",
                OrElse(resp.error_message,
                       Some("Failed to generate video from analyzed content")),
                OrElse(resp.suggestions, DefaultSuggestions)))
    /\ isGenerating' = FALSE
    /\ UNCHANGED <<loaded, audioVars, manualVars, scannerVars, pageInputs, pageRec, pageAlert>>

\* ---- what the component renders
SuccessViewShown == ~IsNull(result) /\ Val(result).success
ErrorViewShown == ~IsNull(result) /\ ~Val(result).success
\* {result.error_message || result.error}
ErrorViewMessage == OrElse(Val(result).error_message, Val(result).error)
ErrorViewSuggestions == Val(result).suggestions
\* the src of the video player of the success view: the player is rendered
\* for result.video_urls?.cloud_original only
PagePlayerSource ==
    IF SuccessViewShown /\ "cloud_original" \in Val(result).urls
    THEN Some("cloud_original")
    ELSE NULL
\* the success view has no link to an alternative narrated / original video
PageAlternativeLinks == {}

NextApp ==
    \/ \E m \in InputModes : SetInputMode(m)
    \/ \E t \in InputTexts : SetInputText(t)
    \/ \E s \in SettingsChoices : SetSettings(s)
    \/ \E f \in {NULL, Some(1)} : PageHandleImageUpload(f)
    \/ \E g \in BOOLEAN : PageStartRecording(g)
    \/ PageStopRecording
    \/ \E n \in stopEvents : PageRecorderOnStop(n)
    \/ PageDismissAlert
    \/ HandleGenerate
    \/ \E i \in DOMAIN pageTasks, r \in GenResponses : TextResponse(i, r)
    \/ \E i \in DOMAIN pageTasks : VoiceReaderLoad(i)
    \/ \E i \in DOMAIN pageTasks, r \in GenResponses : VoiceResponse(i, r)
    \/ \E i \in DOMAIN pageTasks : ImageReaderLoad(i)
    \/ \E i \in DOMAIN pageTasks, r \in PageAnalysisResponses : ImageResponse(i, r)
    \/ \E i \in DOMAIN pageTasks, r \in GenResponses : ImageGenResponse(i, r)

\* ============================================== the manual input handler
Complexities == {"beginner", "intermediate", "advanced"}
StepNumbers == 1..5
DetectLabel == "Detect Type"
DetectingLabel == "Detecting..."

\* detect-input-type: the detection of a success body carries a
\* complexity_hint (possibly empty)
DetectResponses ==
    [kind : {"reject"}, success : {FALSE}, error_message : {NULL},
     error : {NULL}, suggestions : {NULL}, complexity_hint : {""}]
    \cup [kind : {"json"}, success : {FALSE},
          error_message : {NULL, Some("EM")}, error : {NULL, Some("E")},
          suggestions : {NULL, Some("backend")}, complexity_hint : {""}]
    \cup [kind : {"json"}, success : {TRUE}, error_message : {NULL},
          error : {NULL}, suggestions : {NULL},
          complexity_hint : Complexities \cup {""}]

\* The page as served: the form is shown, the loading, results and detection
\* sections are hidden, and so is the detect button, which the 'input'
\* listener shows once the text is longer than 10 characters.
ManualInit ==
    /\ manualText = ""
    /\ complexitySelect = "intermediate"
    /\ detectBtn = [display |-> "none", disabled |-> FALSE,
                    textContent |-> DetectLabel]
    /\ formDisplay = "block"
    /\ loadingDisplay = "none"
    /\ resultsDisplay = "none"
    /\ detectionDisplay = "none"
    /\ steps = [n \in StepNumbers |-> "step"]
    /\ videoContent = NULL
    /\ manualTasks = <<>>
    /\ manualAlert = NULL

\* the handler's script runs; while an alert box is open nothing else does
ManualRuns == loaded = "manual" /\ IsNull(manualAlert)

ManualTask(kind, body, urls) == [kind |-> kind, body |-> body, urls |-> urls]

\* the 'input' listener of the text area
ManualInputChange(t) ==
    /\ ManualRuns
    /\ formDisplay # "none"
    /\ manualText' = t
    /\ detectBtn' = IF Length(t) > 10
                    THEN [detectBtn EXCEPT !.display = "inline-block"]
                    ELSE detectBtn
    /\ UNCHANGED <<loaded, audioVars, pageVars, scannerVars, complexitySelect, manualDom, manualTasks,
                   manualAlert>>

\* the user picks a complexity in the form
ManualSetComplexity(c) ==
    /\ ManualRuns
    /\ formDisplay # "none"
    /\ complexitySelect' = c
    /\ UNCHANGED <<loaded, audioVars, pageVars, scannerVars, manualText, detectBtn, manualDom,
                   manualTasks, manualAlert>>

\* detectInputType up to its await
DetectInputType ==
    /\ ManualRuns
    /\ detectBtn.display # "none"
    /\ ~detectBtn.disabled
    /\ IF Trim(manualText) = ""
       THEN UNCHANGED <<detectBtn, manualTasks>>
       ELSE /\ detectBtn' = [detectBtn EXCEPT !.disabled = TRUE,
                                              !.textContent = DetectingLabel]
            /\ manualTasks' = Append(manualTasks,
                 ManualTask("detect_fetch", Trim(manualText), {}))
    /\ UNCHANGED <<loaded, audioVars, pageVars, scannerVars, manualText, complexitySelect, manualDom,
                   manualAlert>>

\* a finally block that restores the label and leaves the button disabled
DetectFinallyLabelOnly(btn) ==
    [btn EXCEPT !.textContent = DetectLabel]

\* the finally block of detectInputType
DetectFinally(btn) ==
    [btn EXCEPT !.disabled = FALSE, !.textContent = DetectLabel]

\* a selector that follows every hint
DisplayedComplexityAnyHint(hint, current) ==
    IF hint # "" THEN hint ELSE current

\* displayDetectionResults: the complexity selector follows a hint other
\* than 'intermediate'
DisplayedComplexity(hint, current) ==
    IF hint # "" /\ hint # "intermediate" THEN hint ELSE current

\* detectInputType after its awaits.  On failure the catch block's alert
\* comes before the finally block.
DetectResponse(i, resp) ==
    /\ ManualRuns
    /\ manualTasks[i].kind = "detect_fetch"
    /\ manualTasks' = RemoveAt(manualTasks, i)
    /\ IF resp.kind = "json" /\ resp.success
       THEN /\ detectionDisplay' = "block"
            /\ complexitySelect' =
                 DisplayedComplexity(resp.complexity_hint, complexitySelect)
            /\ detectBtn' = DetectFinally(detectBtn)
            /\ UNCHANGED manualAlert
       ELSE /\ manualAlert' = Some(
                 [text |-> IF resp.kind = "reject" THEN "exception"
                           ELSE "Detection failed",
                  then |-> "detect_finally"])
            /\ UNCHANGED <<detectionDisplay, complexitySelect, detectBtn>>
    /\ UNCHANGED <<loaded, audioVars, pageVars, scannerVars, manualText, formDisplay, loadingDisplay,
                   resultsDisplay, steps, videoContent>>

\* the user dismisses the alert box; the interrupted handler runs on
ManualDismissAlert ==
    /\ loaded = "manual"
    /\ ~IsNull(manualAlert)
    /\ manualAlert' = NULL
    /\ detectBtn' = IF Val(manualAlert).then = "detect_finally"
                    THEN DetectFinally(detectBtn) ELSE detectBtn
    /\ UNCHANGED <<loaded, audioVars, pageVars, scannerVars, manualText, complexitySelect, manualDom,
                   manualTasks>>

\* updateLoadingStep
UpdateLoadingStep(st, n, className) ==
    [st EXCEPT ![n] = IF className = "" THEN "step" ELSE className]

\* handleSubmit up to its first await: showLoading, step 1, delay(1000)
HandleSubmit ==
    /\ ManualRuns
    /\ formDisplay # "none"
    /\ formDisplay' = "none"
    /\ detectionDisplay' = "none"
    /\ resultsDisplay' = "none"
    /\ loadingDisplay' = "block"
    /\ steps' = UpdateLoadingStep([n \in StepNumbers |-> "step"], 1, "active")
    /\ manualTasks' = Append(manualTasks,
         ManualTask("delay_1",
                    [input_text |-> manualText, complexity |-> complexitySelect],
                    {}))
    /\ UNCHANGED <<loaded, audioVars, pageVars, scannerVars, manualText, complexitySelect, detectBtn,
                   videoContent, manualAlert>>

\* a submission that marks step 3 when it issues the request
SubmitFetchMarksStep3(i) ==
    /\ ManualRuns
    /\ manualTasks[i].kind = "delay_1"
    /\ steps' = UpdateLoadingStep(steps, 3, "active")
    /\ manualTasks' = [manualTasks EXCEPT ![i].kind = "gen_fetch"]
    /\ UNCHANGED <<loaded, audioVars, pageVars, scannerVars, manualText, complexitySelect, detectBtn,
                   formDisplay, loadingDisplay, resultsDisplay,
                   detectionDisplay, videoContent, manualAlert>>

\* after the first delay: step 2, the generate-content request is issued
SubmitFetch(i) ==
    /\ ManualRuns
    /\ manualTasks[i].kind = "delay_1"
    /\ steps' = UpdateLoadingStep(steps, 2, "active")
    /\ manualTasks' = [manualTasks EXCEPT ![i].kind = "gen_fetch"]
    /\ UNCHANGED <<loaded, audioVars, pageVars, scannerVars, manualText, complexitySelect, detectBtn,
                   formDisplay, loadingDisplay, resultsDisplay,
                   detectionDisplay, videoContent, manualAlert>>

\* the catch block of handleSubmit: hideLoading, then the alert
SubmitCatch(i, message) ==
    /\ manualTasks' = RemoveAt(manualTasks, i)
    /\ loadingDisplay' = "none"
    /\ manualAlert' = Some([text |-> message, then |-> "none"])

\* fetch settles: a rejection goes to the catch block, a response activates
\* step 3 and response.json() is awaited
SubmitFetched(i, arrived) ==
    /\ ManualRuns
    /\ manualTasks[i].kind = "gen_fetch"
    /\ IF arrived
       THEN /\ steps' = UpdateLoadingStep(steps, 3, "active")
            /\ manualTasks' = [manualTasks EXCEPT ![i].kind = "gen_json"]
            /\ UNCHANGED <<loadingDisplay, manualAlert>>
       ELSE /\ SubmitCatch(i, "exception")
            /\ UNCHANGED steps
    /\ UNCHANGED <<loaded, audioVars, pageVars, scannerVars, manualText, complexitySelect, detectBtn,
                   formDisplay, resultsDisplay, detectionDisplay, videoContent>>

\* response.json() settles: step 4, then step 5 and a delay for a success
\* body, the catch block for a failure body or an unparsable one
SubmitParsed(i, resp) ==
    /\ ManualRuns
    /\ manualTasks[i].kind = "gen_json"
    /\ IF resp.kind = "reject"
       THEN /\ SubmitCatch(i, "exception")
            /\ UNCHANGED steps
       ELSE IF resp.success
       THEN /\ steps' = UpdateLoadingStep(
                          UpdateLoadingStep(steps, 4, "active"), 5, "active")
            /\ manualTasks' = [manualTasks EXCEPT ![i].kind = "delay_2",
                                                  ![i].urls = resp.urls]
            /\ UNCHANGED <<loadingDisplay, manualAlert>>
       ELSE /\ steps' = UpdateLoadingStep(steps, 4, "active")
            /\ SubmitCatch(i, Val(OrElse(resp.error, Some("Generation failed"))))
    /\ UNCHANGED <<loaded, audioVars, pageVars, scannerVars, manualText, complexitySelect, detectBtn,
                   formDisplay, resultsDisplay, detectionDisplay, videoContent>>

\* after the second delay: every step completed, delay(500)
SubmitCompleted(i) ==
    /\ ManualRuns
    /\ manualTasks[i].kind = "delay_2"
    /\ steps' = [n \in StepNumbers |-> "completed"]
    /\ manualTasks' = [manualTasks EXCEPT ![i].kind = "delay_3"]
    /\ UNCHANGED <<loaded, audioVars, pageVars, scannerVars, manualText, complexitySelect, detectBtn,
                   formDisplay, loadingDisplay, resultsDisplay,
                   detectionDisplay, videoContent, manualAlert>>

\* after the third delay: hideLoading and displayResults
SubmitDisplay(i) ==
    /\ ManualRuns
    /\ manualTasks[i].kind = "delay_3"
    /\ manualTasks' = RemoveAt(manualTasks, i)
    /\ loadingDisplay' = "none"
    /\ resultsDisplay' = "block"
    /\ videoContent' = Some(manualTasks[i].urls)
    /\ UNCHANGED <<loaded, audioVars, pageVars, scannerVars, manualText, complexitySelect, detectBtn,
                   formDisplay, detectionDisplay, steps, manualAlert>>

\* displayResults: the <video> the video-content section holds: the narrated
\* URL when there is one, else the original URL, else none
ManualPlayerSource ==
    IF IsNull(videoContent) THEN NULL
    ELSE IF "narrated" \in Val(videoContent) THEN Some("narrated")
    ELSE IF "original" \in Val(videoContent) THEN Some("original")
    ELSE NULL

\* resetForm: location.reload() serves the page anew
ResetForm ==
    /\ ManualRuns
    /\ resultsDisplay # "none"
    /\ manualText' = ""
    /\ complexitySelect' = "intermediate"
    /\ detectBtn' = [display |-> "none", disabled |-> FALSE,
                     textContent |-> DetectLabel]
    /\ formDisplay' = "block"
    /\ loadingDisplay' = "none"
    /\ resultsDisplay' = "none"
    /\ detectionDisplay' = "none"
    /\ steps' = [n \in StepNumbers |-> "step"]
    /\ videoContent' = NULL
    /\ manualTasks' = <<>>
    /\ UNCHANGED <<loaded, audioVars, pageVars, scannerVars, manualAlert>>

NextManual ==
    \/ \E t \in ManualTexts : ManualInputChange(t)
    \/ \E c \in Complexities : ManualSetComplexity(c)
    \/ DetectInputType
    \/ \E i \in DOMAIN manualTasks, r \in DetectResponses : DetectResponse(i, r)
    \/ ManualDismissAlert
    \/ HandleSubmit
    \/ \E i \in DOMAIN manualTasks : SubmitFetch(i)
    \/ \E i \in DOMAIN manualTasks, ok \in BOOLEAN : SubmitFetched(i, ok)
    \/ \E i \in DOMAIN manualTasks, r \in GenResponses : SubmitParsed(i, r)
    \/ \E i \in DOMAIN manualTasks : SubmitCompleted(i)
    \/ \E i \in DOMAIN manualTasks : SubmitDisplay(i)
    \/ ResetForm

\* ======================================================= camera scanner
\* process-camera-capture and analyze-educational-image as the scanner
\* reads them: a success body carries confirmation_data with a primary
\* concept and `questions' / `topics' detected candidates
ScanAnalysisResponses ==
    [kind : {"reject"}, httpOk : {FALSE}, success : {FALSE},
     error_message : {NULL}, error : {NULL}, message : {NULL},
     suggestions : {NULL}, questions : {0}, topics : {0}]
    \cup [kind : {"json"}, httpOk : BOOLEAN, success : {FALSE},
          error_message : {NULL, Some("EM")}, error : {NULL, Some("E")},
          message : {NULL, Some("M")}, suggestions : {Some("backend")},
          questions : {0}, topics : {0}]
    \cup [kind : {"json"}, httpOk : BOOLEAN, success : {TRUE},
          error_message : {NULL}, error : {NULL}, message : {NULL},
          suggestions : {NULL}, questions : {0}, topics : {0}]
    \cup [kind : {"json"}, httpOk : BOOLEAN, success : {TRUE},
          error_message : {NULL}, error : {NULL}, message : {NULL},
          suggestions : {NULL}, questions : {1}, topics : {1}]

\* clientX - rect.left, clientY - rect.top of a click on the camera feed
ClickPoints == {<<50, 50>>, <<30, 80>>}

\* the cards createConfirmationOverlay renders for confirmation data d
CardsOf(d) ==
    {<<"concept", 0>>}
    \cup {<<"question", i>> : i \in 0..(d.questions - 1)}
    \cup {<<"topic", i>> : i \in 0..(d.topics - 1)}

AllCards == CardsOf([questions |-> 1, topics |-> 1])

\* what the user types into #confirmed-input
ConfirmedTexts == {"", " ", "my own question"}
\* the values #confirmed-complexity and #confirmed-language have at the
\* click on Generate Content: only the user changes them, nothing but
\* proceedWithConfirmedInput reads them
ConfirmedSettings == {<<"intermediate", "english">>, <<"advanced", "hindi">>}

StoppedControls ==
    [start |-> "inline-block", capture |-> "none", selectRegion |-> "none",
     stop |-> "none", feed |-> "none"]
RunningControls ==
    [start |-> "none", capture |-> "inline-block",
     selectRegion |-> "inline-block", stop |-> "inline-block",
     feed |-> "block"]

\* The scanner as constructed, camera stopped.  checkCameraSupport can only
\* disable the start button (no camera found); the button stays enabled
\* here, which allows every behaviour the disabled button allows.
ScannerInit ==
    /\ stream = NULL
    /\ liveStreams = {}
    /\ pendingMedia = {}
    /\ controls = StoppedControls
    /\ isSelecting = FALSE
    /\ selectedRegion = NULL
    /\ analysisResult = NULL
    /\ confirmationData = NULL
    /\ overlay = NULL
    /\ arLoading = "none"
    /\ arResults = [display |-> "none", info |-> NULL, video |-> NULL]
    /\ requests = {}
    /\ timers = <<>>
    /\ scannerAlert = NULL
    /\ issued = [analysis |-> 0, generate |-> 0, media |-> 0, stale |-> {}]
    /\ captures = 0

\* the calls of one behaviour are bounded
CanCall == issued.media + issued.analysis + issued.generate < MaxCalls

\* alert() is modal: no handler, callback or timer runs until it is dismissed
ScannerRuns == loaded = "scanner" /\ IsNull(scannerAlert)

ScannerDismissAlert ==
    /\ loaded = "scanner"
    /\ ~IsNull(scannerAlert)
    /\ scannerAlert' = NULL
    /\ UNCHANGED <<loaded, audioVars, pageVars, manualVars, cameraVars, selectionVars,
                   analysisVars, workVars>>

\* ---- camera
\* startCamera up to its await: getUserMedia is called
StartCamera ==
    /\ ScannerRuns
    /\ controls.start # "none"
    /\ CanCall
    /\ pendingMedia' = pendingMedia \cup {issued.media + 1}
    /\ issued' = [issued EXCEPT !.media = @ + 1]
    /\ UNCHANGED <<loaded, audioVars, pageVars, manualVars, stream, liveStreams,
                   controls, selectionVars, analysisVars, arLoading,
                   arResults, requests, timers, captures, scannerAlert>>

\* startCamera whose catch block also switches the controls to running
MediaSettledShowsControls(m, granted) ==
    /\ ScannerRuns
    /\ m \in pendingMedia
    /\ pendingMedia' = pendingMedia \ {m}
    /\ IF granted
       THEN /\ liveStreams' = liveStreams \cup {m}
            /\ stream' = Some(m)
            /\ controls' = RunningControls
            /\ UNCHANGED scannerAlert
       ELSE /\ scannerAlert' = Some([prefix |-> "Camera access denied or not available. Please use image upload instead.",
                                     message |-> NULL])
            /\ controls' = RunningControls
            /\ UNCHANGED <<liveStreams, stream>>
    /\ UNCHANGED <<loaded, audioVars, pageVars, manualVars, selectionVars, analysisVars,
                   workVars>>

\* startCamera after its await: the stream is stored, or the catch alerts
MediaSettled(m, granted) ==
    /\ ScannerRuns
    /\ m \in pendingMedia
    /\ pendingMedia' = pendingMedia \ {m}
    /\ IF granted
       THEN /\ liveStreams' = liveStreams \cup {m}
            /\ stream' = Some(m)
            /\ controls' = RunningControls
            /\ UNCHANGED scannerAlert
       ELSE /\ scannerAlert' = Some([prefix |-> "Camera access denied or not available. Please use image upload instead.",
                                     message |-> NULL])
            /\ UNCHANGED <<liveStreams, stream, controls>>
    /\ UNCHANGED <<loaded, audioVars, pageVars, manualVars, selectionVars, analysisVars,
                   workVars>>

ClearDetectedItems ==
    /\ analysisResult' = NULL
    /\ confirmationData' = NULL

\* history: the analysis requests in flight when the data is cleared
NoteCleared ==
    issued' = [issued EXCEPT !.stale = @ \cup {r.id : r \in {q \in requests :
                                                  q.kind \in {"camera", "upload"}}}]

\* a stopCamera that releases the stream and leaves the buttons as they are
StopCameraKeepsControls ==
    /\ ScannerRuns
    /\ controls.stop # "none"
    /\ IF ~IsNull(stream)
       THEN /\ liveStreams' = liveStreams \ {Val(stream)}
            /\ stream' = NULL
       ELSE UNCHANGED <<liveStreams, stream>>
    /\ controls' = controls
    /\ ClearDetectedItems
    /\ NoteCleared
    /\ UNCHANGED <<loaded, audioVars, pageVars, manualVars, pendingMedia, selectionVars,
                   overlay, arLoading, arResults, requests, timers, captures,
                   scannerAlert>>

StopCamera ==
    /\ ScannerRuns
    /\ controls.stop # "none"
    /\ IF ~IsNull(stream)
       THEN /\ liveStreams' = liveStreams \ {Val(stream)}
            /\ stream' = NULL
       ELSE UNCHANGED <<liveStreams, stream>>
    /\ controls' = StoppedControls
    /\ ClearDetectedItems
    /\ NoteCleared
    /\ UNCHANGED <<loaded, audioVars, pageVars, manualVars, pendingMedia, selectionVars,
                   overlay, arLoading, arResults, requests, timers, captures,
                   scannerAlert>>

ToggleRegionSelection ==
    /\ ScannerRuns
    /\ controls.selectRegion # "none"
    /\ isSelecting' = ~isSelecting
    /\ UNCHANGED <<loaded, audioVars, pageVars, manualVars, cameraVars, selectedRegion,
                   analysisVars, workVars, scannerAlert>>


\* ---- capture and upload
NextId == issued.analysis + issued.generate + 1

Abs(n) == IF n < 0 THEN -n ELSE n

\* a rectangle anchored at the first corner whatever the direction
RegionOfFromStart(sel, p) ==
    LET width == p[1] - sel.startX
        height == p[2] - sel.startY
    IN  [startX |-> sel.startX, startY |-> sel.startY,
         width |-> Abs(width), height |-> Abs(height),
         x |-> sel.startX, y |-> sel.startY]

\* the rectangle handleRegionSelection computes on the second click at p
RegionOf(sel, p) ==
    LET width == p[1] - sel.startX
        height == p[2] - sel.startY
    IN  [startX |-> sel.startX, startY |-> sel.startY,
         width |-> Abs(width), height |-> Abs(height),
         x |-> IF width > 0 THEN sel.startX ELSE p[1],
         y |-> IF height > 0 THEN sel.startY ELSE p[2]]

\* the fetch processCameraCapture and processImage issue
AnalysisFetch(kind, region) ==
    requests' = requests \cup {[id |-> NextId, kind |-> kind,
                                region |-> region, body |-> NULL]}

\* a capture that submits its frame twice
CaptureImageTwice(region) ==
    /\ CanCall
    /\ arLoading' = "flex"
    /\ requests' = requests \cup
           {[id |-> NextId + k, kind |-> "camera", region |-> region,
             body |-> NULL] : k \in {0, 1}}
    /\ issued' = [issued EXCEPT !.analysis = @ + 2]
    /\ UNCHANGED <<arResults, timers>>

\* captureImage(region) up to the await in processCameraCapture
CaptureImage(region) ==
    /\ CanCall
    /\ arLoading' = "flex"
    /\ AnalysisFetch("camera", region)
    /\ issued' = [issued EXCEPT !.analysis = @ + 1]
    /\ UNCHANGED <<arResults, timers>>

\* click on the capture button
CaptureClick ==
    /\ ScannerRuns
    /\ controls.capture # "none"
    /\ CaptureImage(NULL)
    /\ captures' = captures + 1
    /\ UNCHANGED <<loaded, audioVars, pageVars, manualVars, cameraVars, selectionVars,
                   analysisVars, scannerAlert>>

\* a second click that captures but stays in selection mode
HandleRegionSelectionNoExit(p) ==
    IF IsNull(selectedRegion)
    THEN /\ selectedRegion' = Some([startX |-> p[1], startY |-> p[2]])
         /\ UNCHANGED <<isSelecting, workVars>>
    ELSE /\ CaptureImage(Some(RegionOf(Val(selectedRegion), p)))
         /\ captures' = captures + 1
         /\ UNCHANGED isSelecting
         /\ selectedRegion' = NULL

HandleRegionSelection(p) ==
    IF IsNull(selectedRegion)
    THEN /\ selectedRegion' = Some([startX |-> p[1], startY |-> p[2]])
         /\ UNCHANGED <<isSelecting, workVars>>
    ELSE /\ CaptureImage(Some(RegionOf(Val(selectedRegion), p)))
         /\ captures' = captures + 1
         /\ isSelecting' = ~isSelecting
         /\ selectedRegion' = NULL

\* click or touchstart on the camera feed at p
HandleCameraClick(p) ==
    /\ ScannerRuns
    /\ controls.feed # "none"
    /\ IF isSelecting
       THEN HandleRegionSelection(p)
       ELSE /\ CaptureImage(NULL)
            /\ captures' = captures + 1
            /\ UNCHANGED selectionVars
    /\ UNCHANGED <<loaded, audioVars, pageVars, manualVars, cameraVars, analysisVars,
                   scannerAlert>>

\* an upload handler that refuses a file while a request is in flight
HandleImageUploadGuarded(hasFile) ==
    /\ ScannerRuns
    /\ IF hasFile
       THEN /\ CanCall
            /\ requests = {}
            /\ arLoading' = "flex"
            /\ AnalysisFetch("upload", NULL)
            /\ issued' = [issued EXCEPT !.analysis = @ + 1]
            /\ captures' = captures + 1
            /\ UNCHANGED <<arResults, timers>>
       ELSE UNCHANGED workVars
    /\ UNCHANGED <<loaded, audioVars, pageVars, manualVars, cameraVars, selectionVars,
                   analysisVars, scannerAlert>>

\* change of the image-upload input (the later of the two definitions of
\* handleImageUpload is the method of the class)
HandleImageUpload(hasFile) ==
    /\ ScannerRuns
    /\ IF hasFile
       THEN /\ CanCall
            /\ arLoading' = "flex"
            /\ AnalysisFetch("upload", NULL)
            /\ issued' = [issued EXCEPT !.analysis = @ + 1]
            /\ captures' = captures + 1
            /\ UNCHANGED <<arResults, timers>>
       ELSE UNCHANGED workVars
    /\ UNCHANGED <<loaded, audioVars, pageVars, manualVars, cameraVars, selectionVars,
                   analysisVars, scannerAlert>>

\* ---- analysis response
AnalysisSucceeds(kind, resp) ==
    /\ resp.kind = "json"
    /\ kind = "camera" => resp.httpOk
    /\ resp.success

\* the alert of the catch block of processCameraCapture / processImage
AnalysisAlert(kind, resp) ==
    [prefix |-> IF kind = "camera" THEN "Camera capture failed: "
                ELSE "Image analysis failed: ",
     message |->
        IF resp.kind = "reject" THEN Some("exception")
        ELSE IF kind = "camera" /\ ~resp.httpOk
             THEN Some("Server error: status - body")
        ELSE IF kind = "camera"
             THEN OrElse(resp.message, Some("Camera capture analysis failed"))
        ELSE OrElse(resp.message, Some("Vision AI analysis failed"))]

\* createConfirmationOverlay(d): a fresh overlay replaces any existing one
CreateConfirmationOverlay(d) ==
    Some([data |-> d, selected |-> {},
          text |-> [from |-> "default", data |-> d.id,
                    card |-> <<"none", 0>>, value |-> ""]])

\* an analysis response handled by generating at once from the default
\* selection, with no confirmation view
AnalysisResponseAutoGenerate(r, resp) ==
    /\ ScannerRuns
    /\ r \in requests
    /\ r.kind \in {"camera", "upload"}
    /\ IF AnalysisSucceeds(r.kind, resp)
       THEN LET d == [id |-> r.id, questions |-> resp.questions,
                      topics |-> resp.topics]
            IN  /\ analysisResult' = Some(r.id)
                /\ confirmationData' = Some(d)
                /\ arLoading' = "flex"
                /\ requests' = (requests \ {r}) \cup
                       {[id |-> NextId, kind |-> "generate", region |-> NULL,
                         body |-> Some([input_text |->
                                          Val(CreateConfirmationOverlay(d)).text,
                                        complexity |-> "intermediate",
                                        language |-> "english"])]}
                /\ issued' = [issued EXCEPT !.generate = @ + 1]
                /\ UNCHANGED <<overlay, timers, scannerAlert>>
       ELSE /\ requests' = requests \ {r}
            /\ arLoading' = "none"
            /\ scannerAlert' = Some(AnalysisAlert(r.kind, resp))
            /\ UNCHANGED <<analysisVars, timers, issued>>
    /\ UNCHANGED <<loaded, audioVars, pageVars, manualVars, cameraVars, selectionVars,
                   arResults, captures>>

AnalysisResponse(r, resp) ==
    /\ ScannerRuns
    /\ r \in requests
    /\ r.kind \in {"camera", "upload"}
    /\ requests' = requests \ {r}
    /\ arLoading' = "none"
    /\ IF AnalysisSucceeds(r.kind, resp)
       THEN LET d == [id |-> r.id, questions |-> resp.questions,
                      topics |-> resp.topics]
            IN  /\ analysisResult' = Some(r.id)
                /\ confirmationData' = Some(d)
                /\ overlay' = CreateConfirmationOverlay(d)
                /\ timers' = Append(timers, [kind |-> "hide", id |-> 0,
                                             urls |-> {}])
                /\ UNCHANGED scannerAlert
       ELSE /\ scannerAlert' = Some(AnalysisAlert(r.kind, resp))
            /\ UNCHANGED <<analysisVars, timers>>
    /\ UNCHANGED <<loaded, audioVars, pageVars, manualVars, cameraVars, selectionVars,
                   arResults, issued, captures>>


\* ---- confirmation overlay
\* click on a card of the overlay
SelectOption(card) ==
    /\ ScannerRuns
    /\ ~IsNull(overlay)
    /\ card \in CardsOf(Val(overlay).data)
    /\ LET o == Val(overlay)
           marked == (o.selected \ CardsOf(o.data)) \cup {card}
           \* a read through this.confirmationData; a TypeError when it is
           \* null or has no such candidate leaves the input as it was
           text == IF /\ ~IsNull(confirmationData)
                      /\ card \in CardsOf(Val(confirmationData))
                   THEN [from |-> "suggested",
                         data |-> Val(confirmationData).id,
                         card |-> card, value |-> ""]
                   ELSE o.text
       IN  overlay' = Some([o EXCEPT !.selected = marked, !.text = text])
    /\ UNCHANGED <<loaded, audioVars, pageVars, manualVars, cameraVars, selectionVars,
                   analysisResult, confirmationData, workVars, scannerAlert>>

\* the user types into #confirmed-input
EditConfirmedInput(t) ==
    /\ ScannerRuns
    /\ ~IsNull(overlay)
    /\ overlay' = Some([Val(overlay) EXCEPT
                          !.text = [from |-> "typed", data |-> 0,
                                    card |-> <<"none", 0>>, value |-> t]])
    /\ UNCHANGED <<loaded, audioVars, pageVars, manualVars, cameraVars, selectionVars,
                   analysisResult, confirmationData, workVars, scannerAlert>>

\* value.trim() of #confirmed-input
TrimText(text) == [text EXCEPT !.value = Trim(@)]
IsEmptyText(text) == text.from = "typed" /\ text.value = ""

\* generate-content as the scanner reads it
ScanGenResponses ==
    {r \in GenResponses : r.success \/ r.kind = "reject"
                              \/ r.suggestions = Some("backend")}

\* a Generate Content click that sends the input as typed, untrimmed
ProceedWithRawInput(cs) ==
    /\ ScannerRuns
    /\ ~IsNull(overlay)
    /\ LET o == Val(overlay)
           confirmedInput == o.text
       IN  IF IsEmptyText(confirmedInput)
           THEN /\ scannerAlert' =
                       Some([prefix |-> "Please enter or select content to proceed",
                             message |-> NULL])
                /\ UNCHANGED <<overlay, workVars>>
           ELSE /\ CanCall
                /\ overlay' = NULL
                /\ arLoading' = "flex"
                /\ requests' = requests \cup
                       {[id |-> NextId, kind |-> "generate", region |-> NULL,
                         body |-> Some([input_text |-> confirmedInput,
                                        complexity |-> cs[1],
                                        language |-> cs[2]])]}
                /\ issued' = [issued EXCEPT !.generate = @ + 1]
                /\ UNCHANGED <<arResults, timers, captures, scannerAlert>>
    /\ UNCHANGED <<loaded, audioVars, pageVars, manualVars, cameraVars, selectionVars,
                   analysisResult, confirmationData>>

\* a Generate Content click that closes the confirmation view before it
\* tests the input
ProceedClosesFirst(cs) ==
    /\ ScannerRuns
    /\ ~IsNull(overlay)
    /\ LET o == Val(overlay)
           confirmedInput == TrimText(o.text)
       IN  IF IsEmptyText(confirmedInput)
           THEN /\ scannerAlert' =
                       Some([prefix |-> "Please enter or select content to proceed",
                             message |-> NULL])
                /\ overlay' = NULL
                /\ UNCHANGED workVars
           ELSE /\ CanCall
                /\ overlay' = NULL
                /\ arLoading' = "flex"
                /\ requests' = requests \cup
                       {[id |-> NextId, kind |-> "generate", region |-> NULL,
                         body |-> Some([input_text |-> confirmedInput,
                                        complexity |-> cs[1],
                                        language |-> cs[2]])]}
                /\ issued' = [issued EXCEPT !.generate = @ + 1]
                /\ UNCHANGED <<arResults, timers, captures, scannerAlert>>
    /\ UNCHANGED <<loaded, audioVars, pageVars, manualVars, cameraVars, selectionVars,
                   analysisResult, confirmationData>>

\* click on Generate Content, up to the await of the fetch
ProceedWithConfirmedInput(cs) ==
    /\ ScannerRuns
    /\ ~IsNull(overlay)
    /\ LET o == Val(overlay)
           confirmedInput == TrimText(o.text)
       IN  IF IsEmptyText(confirmedInput)
           THEN /\ scannerAlert' =
                       Some([prefix |-> "Please enter or select content to proceed",
                             message |-> NULL])
                /\ UNCHANGED <<overlay, workVars>>
           ELSE /\ CanCall
                /\ overlay' = NULL
                /\ arLoading' = "flex"
                /\ requests' = requests \cup
                       {[id |-> NextId, kind |-> "generate", region |-> NULL,
                         body |-> Some([input_text |-> confirmedInput,
                                        complexity |-> cs[1],
                                        language |-> cs[2]])]}
                /\ issued' = [issued EXCEPT !.generate = @ + 1]
                /\ UNCHANGED <<arResults, timers, captures, scannerAlert>>
    /\ UNCHANGED <<loaded, audioVars, pageVars, manualVars, cameraVars, selectionVars,
                   analysisResult, confirmationData>>

\* proceedWithConfirmedInput after its awaits
\* a generate response whose failure branch leaves the loading overlay up
GenerateResponseKeepsLoading(r, resp) ==
    /\ ScannerRuns
    /\ r \in requests
    /\ r.kind = "generate"
    /\ requests' = requests \ {r}
    /\ IF resp.kind = "json" /\ resp.success
       THEN /\ timers' = Append(timers, [kind |-> "results", id |-> r.id,
                                         urls |-> resp.urls])
            /\ UNCHANGED <<arLoading, scannerAlert>>
       ELSE /\ scannerAlert' =
                   Some([prefix |-> "Content generation failed: ",
                         message |->
                            IF resp.kind = "reject" THEN Some("exception")
                            ELSE OrElse(resp.error, Some("Generation failed"))])
            /\ UNCHANGED <<arLoading, timers>>
    /\ UNCHANGED <<loaded, audioVars, pageVars, manualVars, cameraVars, selectionVars,
                   analysisVars, arResults, issued, captures>>

GenerateResponse(r, resp) ==
    /\ ScannerRuns
    /\ r \in requests
    /\ r.kind = "generate"
    /\ requests' = requests \ {r}
    /\ IF resp.kind = "json" /\ resp.success
       THEN /\ timers' = Append(timers, [kind |-> "results", id |-> r.id,
                                         urls |-> resp.urls])
            /\ UNCHANGED <<arLoading, scannerAlert>>
       ELSE /\ arLoading' = "none"
            /\ scannerAlert' =
                   Some([prefix |-> "Content generation failed: ",
                         message |->
                            IF resp.kind = "reject" THEN Some("exception")
                            ELSE OrElse(resp.error, Some("Generation failed"))])
            /\ UNCHANGED timers
    /\ UNCHANGED <<loaded, audioVars, pageVars, manualVars, cameraVars, selectionVars,
                   analysisVars, arResults, issued, captures>>

\* result.video_urls?.narrated || result.video_urls?.original
VideoUrl(t) ==
    IF "narrated" \in t.urls THEN Some(<<"narrated", t.id>>)
    ELSE IF "original" \in t.urls THEN Some(<<"original", t.id>>)
    ELSE NULL

\* showARResults(result): the video element keeps its source when the
\* result has no video URL
ShowARResults(t) ==
    [display |-> "flex", info |-> Some(t.id),
     video |-> OrElse(VideoUrl(t), arResults.video)]

\* a setTimeout callback runs
TimerFires(i) ==
    /\ ScannerRuns
    /\ i \in DOMAIN timers
    /\ timers' = RemoveAt(timers, i)
    /\ arLoading' = "none"
    /\ IF timers[i].kind = "results"
       THEN arResults' = ShowARResults(timers[i])
       ELSE UNCHANGED arResults
    /\ UNCHANGED <<loaded, audioVars, pageVars, manualVars, cameraVars, selectionVars,
                   analysisVars, requests, issued, captures, scannerAlert>>

RetakePhoto ==
    /\ ScannerRuns
    /\ ~IsNull(overlay)
    /\ overlay' = NULL
    /\ ClearDetectedItems
    /\ NoteCleared
    /\ UNCHANGED <<loaded, audioVars, pageVars, manualVars, cameraVars, selectionVars,
                   arLoading, arResults, requests, timers, captures,
                   scannerAlert>>

\* click on Cancel
CloseConfirmation ==
    /\ ScannerRuns
    /\ ~IsNull(overlay)
    /\ overlay' = NULL
    /\ UNCHANGED <<loaded, audioVars, pageVars, manualVars, cameraVars, selectionVars,
                   analysisResult, confirmationData, workVars, scannerAlert>>

CloseArResults ==
    /\ ScannerRuns
    /\ arResults.display # "none"
    /\ arResults' = [arResults EXCEPT !.display = "none"]
    /\ UNCHANGED <<loaded, audioVars, pageVars, manualVars, cameraVars, selectionVars,
                   analysisVars, arLoading, requests, timers, issued,
                   captures, scannerAlert>>

NextScanner ==
    \/ ScannerDismissAlert
    \/ StartCamera
    \/ \E m \in pendingMedia, granted \in BOOLEAN : MediaSettled(m, granted)
    \/ StopCamera
    \/ ToggleRegionSelection
    \/ CaptureClick
    \/ \E p \in ClickPoints : HandleCameraClick(p)
    \/ \E hasFile \in BOOLEAN : HandleImageUpload(hasFile)
    \/ \E r \in requests, resp \in ScanAnalysisResponses :
            AnalysisResponse(r, resp)
    \/ \E card \in AllCards : SelectOption(card)
    \/ \E t \in ConfirmedTexts : EditConfirmedInput(t)
    \/ \E cs \in ConfirmedSettings : ProceedWithConfirmedInput(cs)
    \/ \E r \in requests, resp \in ScanGenResponses :
            GenerateResponse(r, resp)
    \/ \E i \in DOMAIN timers : TimerFires(i)
    \/ RetakePhoto
    \/ CloseConfirmation
    \/ CloseArResults


\* ===================================================== EnhancedAudioInput
\* The helper class of page.tsx.  Its callers are arbitrary: startRecording,
\* stopRecording and setRecordingCompleteCallback may be called in any
\* order.  The waveform drawing loop only paints the canvas: the model counts the
\* loops running and leaves their drawing out.
DeviceIds == {NULL, Some("mic2")}

\* the constructor and initializeAudio / getAudioDevices up to the first
\* await: the permission probe getUserMedia({audio: true}) is pending
AudioInit ==
    /\ selectedDeviceId = NULL
    /\ audioContext = NULL
    /\ openContexts = {}
    /\ currentStream = NULL
    /\ audioMediaRecorder = NULL
    /\ audioChunks = <<>>
    /\ audioIsRecording = FALSE
    /\ onRecordingComplete = FALSE
    /\ deviceSelector = FALSE
    /\ audioLevelText = ""
    /\ micStreams = {}
    /\ micPending = {[id |-> 1, purpose |-> "probe"]}
    /\ micCalls = 1
    /\ recorders = <<>>
    /\ recorderEvents = {}
    /\ completions = <<>>
    /\ startErrors = 0
    /\ redrawLoops = 0

AudioRuns == loaded = "audio"

ProbePending == \E m \in micPending : m.purpose = "probe"
StartsPending == {m \in micPending : m.purpose = "start"}
\* one more getUserMedia call fits, the one construction still has to make
\* counted in
MicBudget == micCalls + (IF ProbePending THEN 1 ELSE 0) < MaxMicCalls
RecorderBudget == Len(recorders) + Cardinality(StartsPending) < MaxRecorders

\* restartAudioMonitoring up to its await: the existing context is closed
\* and getUserMedia is called; nothing stops the tracks of a stream
RestartAudioMonitoring(purpose) ==
    /\ openContexts' = IF IsNull(audioContext) THEN openContexts
                       ELSE openContexts \ {Val(audioContext)}
    /\ micCalls' = micCalls + 1
    /\ micPending' = micPending \cup {[id |-> micCalls + 1, purpose |-> purpose]}

\* new MediaRecorder(stream) ... start(), isRecording = true
ConstructRecorder(s) ==
    /\ recorders' = Append(recorders, [stream |-> s, state |-> "recording",
                                       cb |-> onRecordingComplete])
    /\ audioMediaRecorder' = Some(Len(recorders) + 1)
    /\ audioChunks' = <<>>
    /\ audioIsRecording' = TRUE

\* getAudioDevices after the permission probe settles.  Granted: the probe
\* stream stays live, the devices are listed and createDeviceSelector
\* inserts the selector when the document has a .voice-container, then
\* starts monitoring.  Denied: the error is logged.
ProbeSettled(m, granted, hasContainer) ==
    /\ AudioRuns
    /\ m \in micPending /\ m.purpose = "probe"
    /\ IF granted /\ hasContainer
       THEN /\ micStreams' = micStreams \cup {m.id}
            /\ deviceSelector' = TRUE
            /\ openContexts' = IF IsNull(audioContext) THEN openContexts
                               ELSE openContexts \ {Val(audioContext)}
            /\ micCalls' = micCalls + 1
            /\ micPending' = (micPending \ {m})
                                \cup {[id |-> micCalls + 1, purpose |-> "monitor"]}
       ELSE /\ micStreams' = IF granted THEN micStreams \cup {m.id} ELSE micStreams
            /\ micPending' = micPending \ {m}
            /\ UNCHANGED <<deviceSelector, openContexts, micCalls>>
    /\ UNCHANGED <<loaded, pageVars, manualVars, scannerVars, selectedDeviceId,
                   audioContext, currentStream, audioMediaRecorder, audioChunks,
                   audioIsRecording, onRecordingComplete, audioLevelText,
                   recorders, recorderEvents, completions, startErrors, redrawLoops>>

\* the change handler of #device-select
DeviceSelectChange(d) ==
    /\ AudioRuns
    /\ deviceSelector
    /\ MicBudget
    /\ selectedDeviceId' = d
    /\ RestartAudioMonitoring("monitor")
    /\ UNCHANGED <<loaded, pageVars, manualVars, scannerVars, audioContext,
                   currentStream, audioMediaRecorder, audioChunks,
                   audioIsRecording, onRecordingComplete, deviceSelector,
                   audioLevelText, micStreams, recorders, recorderEvents,
                   completions, startErrors, redrawLoops>>

\* startRecording without the check of this.currentStream
StartRecordingUnchecked ==
    /\ AudioRuns
    /\ RecorderBudget
    /\ ConstructRecorder(OrElse(currentStream, 0))
    /\ UNCHANGED <<openContexts, micCalls, micPending>>
    /\ UNCHANGED <<loaded, pageVars, manualVars, scannerVars, selectedDeviceId,
                   audioContext, currentStream, onRecordingComplete,
                   deviceSelector, audioLevelText, micStreams, recorderEvents,
                   completions, startErrors, redrawLoops>>

\* startRecording up to its first await, or to its end when a stream exists
StartRecording ==
    /\ AudioRuns
    /\ RecorderBudget
    /\ IF IsNull(currentStream)
       THEN /\ MicBudget
            /\ RestartAudioMonitoring("start")
            /\ UNCHANGED <<recorders, audioMediaRecorder, audioChunks, audioIsRecording>>
       ELSE /\ ConstructRecorder(Val(currentStream))
            /\ UNCHANGED <<openContexts, micCalls, micPending>>
    /\ UNCHANGED <<loaded, pageVars, manualVars, scannerVars, selectedDeviceId,
                   audioContext, currentStream, onRecordingComplete,
                   deviceSelector, audioLevelText, micStreams, recorderEvents,
                   completions, startErrors, redrawLoops>>

\* drawWaveform, called when #waveform-canvas is found: one more redraw loop
\* re-schedules itself with requestAnimationFrame on every frame
DrawWaveform == IF deviceSelector THEN redrawLoops + 1 ELSE redrawLoops

\* a restart that cancels the redraw loop of the monitoring it replaces
MonitorSettledCancelsLoop(m, granted) ==
    /\ AudioRuns
    /\ m \in micPending /\ m.purpose \in {"monitor", "start"}
    /\ micPending' = micPending \ {m}
    /\ IF granted
       THEN /\ micStreams' = micStreams \cup {m.id}
            /\ audioContext' = Some(m.id)
            /\ openContexts' = openContexts \cup {m.id}
            /\ currentStream' = Some(m.id)
            /\ redrawLoops' = IF deviceSelector THEN 1 ELSE redrawLoops
            /\ UNCHANGED <<audioLevelText, startErrors>>
            /\ IF m.purpose = "start"
               THEN ConstructRecorder(m.id)
               ELSE UNCHANGED <<recorders, audioMediaRecorder, audioChunks, audioIsRecording>>
       ELSE /\ UNCHANGED <<micStreams, audioContext, openContexts, currentStream,
                         redrawLoops>>
            /\ audioLevelText' = IF deviceSelector THEN "Microphone access denied"
                                 ELSE audioLevelText
            /\ IF m.purpose = "start" /\ deviceSelector /\ ~IsNull(currentStream)
               THEN /\ ConstructRecorder(Val(currentStream))
                    /\ UNCHANGED startErrors
               ELSE /\ startErrors' = IF m.purpose = "start" THEN startErrors + 1
                                      ELSE startErrors
                    /\ UNCHANGED <<recorders, audioMediaRecorder, audioChunks, audioIsRecording>>
    /\ UNCHANGED <<loaded, pageVars, manualVars, scannerVars, selectedDeviceId,
                   onRecordingComplete, deviceSelector, micCalls,
                   recorderEvents, completions>>


\* restartAudioMonitoring after its getUserMedia settles, and, when
\* startRecording awaits it, the rest of startRecording.  Denied: the catch
\* writes to #audio-level-text, which throws when the element is missing;
\* new MediaRecorder(undefined) throws as well.
MonitorSettled(m, granted) ==
    /\ AudioRuns
    /\ m \in micPending /\ m.purpose \in {"monitor", "start"}
    /\ micPending' = micPending \ {m}
    /\ IF granted
       THEN /\ micStreams' = micStreams \cup {m.id}
            /\ audioContext' = Some(m.id)
            /\ openContexts' = openContexts \cup {m.id}
            /\ currentStream' = Some(m.id)
            /\ redrawLoops' = DrawWaveform
            /\ UNCHANGED <<audioLevelText, startErrors>>
            /\ IF m.purpose = "start"
               THEN ConstructRecorder(m.id)
               ELSE UNCHANGED <<recorders, audioMediaRecorder, audioChunks, audioIsRecording>>
       ELSE /\ UNCHANGED <<micStreams, audioContext, openContexts, currentStream,
                         redrawLoops>>
            /\ audioLevelText' = IF deviceSelector THEN "Microphone access denied"
                                 ELSE audioLevelText
            /\ IF m.purpose = "start" /\ deviceSelector /\ ~IsNull(currentStream)
               THEN /\ ConstructRecorder(Val(currentStream))
                    /\ UNCHANGED startErrors
               ELSE /\ startErrors' = IF m.purpose = "start" THEN startErrors + 1
                                      ELSE startErrors
                    /\ UNCHANGED <<recorders, audioMediaRecorder, audioChunks, audioIsRecording>>
    /\ UNCHANGED <<loaded, pageVars, manualVars, scannerVars, selectedDeviceId,
                   onRecordingComplete, deviceSelector, micCalls,
                   recorderEvents, completions>>

\* stopRecording: stops the current recorder when isRecording is set
StopRecording ==
    /\ AudioRuns
    /\ IF ~IsNull(audioMediaRecorder) /\ audioIsRecording
       THEN /\ recorders' = [recorders EXCEPT ![Val(audioMediaRecorder)].state = "inactive"]
            /\ recorderEvents' = recorderEvents \cup {Val(audioMediaRecorder)}
            /\ audioIsRecording' = FALSE
       ELSE UNCHANGED <<recorders, recorderEvents, audioIsRecording>>
    /\ UNCHANGED <<loaded, pageVars, manualVars, scannerVars, selectedDeviceId,
                   audioContext, openContexts, currentStream, audioMediaRecorder,
                   audioChunks, onRecordingComplete, deviceSelector,
                   audioLevelText, micStreams, micPending, micCalls,
                   completions, startErrors, redrawLoops>>

\* a stopped recorder delivers dataavailable and stop: its data, when not
\* empty, is pushed to this.audioChunks, and onstop hands the blob made of
\* this.audioChunks to the registered callback
RecorderStopped(n, hasData) ==
    /\ AudioRuns
    /\ n \in recorderEvents
    /\ recorderEvents' = recorderEvents \ {n}
    /\ audioChunks' = IF hasData THEN Append(audioChunks, n) ELSE audioChunks
    /\ completions' = IF onRecordingComplete
                      THEN Append(completions, [recorder |-> n, blob |-> audioChunks'])
                      ELSE completions
    /\ UNCHANGED <<loaded, pageVars, manualVars, scannerVars, selectedDeviceId,
                   audioContext, openContexts, currentStream, audioMediaRecorder,
                   audioIsRecording, onRecordingComplete, deviceSelector,
                   audioLevelText, micStreams, micPending, micCalls, recorders,
                   startErrors, redrawLoops>>

SetRecordingCompleteCallback ==
    /\ AudioRuns
    /\ onRecordingComplete' = TRUE
    /\ UNCHANGED <<loaded, pageVars, manualVars, scannerVars, selectedDeviceId,
                   audioContext, openContexts, currentStream, audioMediaRecorder,
                   audioChunks, audioIsRecording, deviceSelector, audioLevelText,
                   micStreams, micPending, micCalls, recorders, recorderEvents,
                   completions, startErrors, redrawLoops>>

NextAudio ==
    \/ \E m \in micPending, g \in BOOLEAN, c \in BOOLEAN : ProbeSettled(m, g, c)
    \/ \E d \in DeviceIds : DeviceSelectChange(d)
    \/ StartRecording
    \/ \E m \in micPending, g \in BOOLEAN : MonitorSettled(m, g)
    \/ StopRecording
    \/ \E n \in recorderEvents, d \in BOOLEAN : RecorderStopped(n, d)
    \/ SetRecordingCompleteCallback

\* ================================================================ system
Pages == {"app", "manual", "scanner", "audio"}

Init ==
    /\ loaded \in Pages
    /\ PageInit
    /\ ManualInit
    /\ ScannerInit
    /\ AudioInit

Next == NextApp \/ NextManual \/ NextScanner \/ NextAudio

\* the three programs, one per behaviour
Spec == Init /\ [][Next]_vars
\* each program on its own
InitApp == loaded = "app" /\ PageInit /\ ManualInit /\ ScannerInit /\ AudioInit
InitManual == loaded = "manual" /\ PageInit /\ ManualInit /\ ScannerInit /\ AudioInit
InitScanner == loaded = "scanner" /\ PageInit /\ ManualInit /\ ScannerInit /\ AudioInit
SpecApp == InitApp /\ [][NextApp]_vars
SpecManual == InitManual /\ [][NextManual]_vars
SpecScanner == InitScanner /\ [][NextScanner]_vars
InitAudio == loaded = "audio" /\ PageInit /\ ManualInit /\ ScannerInit /\ AudioInit
SpecAudio == InitAudio /\ [][NextAudio]_vars

\* region selection on its own: the camera runs, selection mode is on, and
\* the feed is clicked at the points of a grid
Coords == {0, 30, 50, 80}
GridPoints == Coords \X Coords
InitRegion ==
    /\ loaded = "scanner"
    /\ PageInit
    /\ ManualInit
    /\ AudioInit
    /\ stream = Some(1)
    /\ liveStreams = {1}
    /\ pendingMedia = {}
    /\ controls = RunningControls
    /\ isSelecting = TRUE
    /\ selectedRegion = NULL
    /\ analysisResult = NULL
    /\ confirmationData = NULL
    /\ overlay = NULL
    /\ arLoading = "none"
    /\ arResults = [display |-> "none", info |-> NULL, video |-> NULL]
    /\ requests = {}
    /\ timers = <<>>
    /\ scannerAlert = NULL
    /\ issued = [analysis |-> 0, generate |-> 0, media |-> 1, stale |-> {}]
    /\ captures = 0
NextRegion == \E p \in GridPoints : HandleCameraClick(p)
SpecRegion == InitRegion /\ [][NextRegion]_vars

\* ================================================================ claims
\* a JSON body reporting failure
FailureBody(r) == r.kind = "json" /\ ~r.success
\* the message the backend provides: error_message, else error
BackendMessage(r) == OrElse(r.error_message, r.error)
\* an alert box shows one text and no list
AlertSuggestions == NULL

\* ---- C1
\* a step in which handleSubmit ends in failure
SubmitFails(i) ==
    \/ SubmitFetched(i, FALSE)
    \/ \E r \in GenResponses : ~(r.kind = "json" /\ r.success) /\ SubmitParsed(i, r)

\* C1: whenever handleSubmit ends in failure (a success:false body, a fetch
\* or JSON rejection), the loading section is hidden and the input form is
\* visible again.
C1_FailureReturnsForm ==
    [][\A i \in DOMAIN manualTasks :
          SubmitFails(i) => (loadingDisplay' = "none" /\ formDisplay' # "none")]_vars

\* ---- C2
\* C2: in the page component, once no continuation of a generation attempt
\* is pending, isGenerating is false: every attempt, whatever its outcome,
\* ends with the Generate button usable again.
C2_GenerationEnds ==
    (loaded = "app" /\ pageTasks = <<>>) => ~isGenerating

\* ---- C3
\* the streams reachable from this.stream
HeldStreams == IF IsNull(stream) THEN {} ELSE {Val(stream)}

\* C3: in every interleaving of startCamera and stopCamera, no acquired
\* camera stream is left running without being reachable from this.stream
\* (so stopCamera can release every stream acquired before a new request).
C3_StreamsReleased == liveStreams \subseteq HeldStreams

\* ---- C4
\* C4: every capture or upload action (capture button, feed click outside
\* selection mode, second click of a region selection, file chosen) has
\* issued exactly one analysis request: the requests issued so far are as
\* many as the actions, none is issued by anything else, and those in
\* flight are among them.
C4_OneRequestPerAction ==
    /\ issued.analysis = captures
    /\ Cardinality({r \in requests : r.kind \in {"camera", "upload"}}) <= captures
    /\ \A r \in requests : r.id <= issued.analysis + issued.generate

\* C4 witness: two actions, two requests, one of them already answered by a
\* failure
C4_Witness ==
    /\ captures = 2
    /\ Cardinality(requests) = 1
    /\ ~IsNull(scannerAlert)
    /\ Val(scannerAlert).prefix \in {"Camera capture failed: ", "Image analysis failed: "}

\* ---- C5
\* C5: a generation response with success:false (page component text, voice
\* and image paths, manual handleSubmit, scanner proceedWithConfirmedInput)
\* leaves no video / result panel displayed and shows the error surface
\* with the message the backend provided.
C5_FailureShowsBackendMessage ==
    [][/\ \A i \in DOMAIN pageTasks, r \in GenResponses :
            (/\ FailureBody(r)
             /\ \/ TextResponse(i, r)
                \/ VoiceResponse(i, r)
                \/ ImageGenResponse(i, r))
            => /\ ~SuccessViewShown'
               /\ ErrorViewShown'
               /\ ~IsNull(BackendMessage(r))
                    => ErrorViewMessage' = BackendMessage(r)
       /\ \A i \in DOMAIN manualTasks, r \in GenResponses :
            (FailureBody(r) /\ SubmitParsed(i, r))
            => /\ resultsDisplay' = "none"
               /\ ~IsNull(manualAlert')
               /\ ~IsNull(BackendMessage(r))
                    => Val(manualAlert').text = Val(BackendMessage(r))
       /\ \A q \in requests, r \in ScanGenResponses :
            (FailureBody(r) /\ GenerateResponse(q, r))
            => /\ arResults'.display = "none"
               /\ ~IsNull(scannerAlert')
               /\ ~IsNull(BackendMessage(r))
                    => Val(scannerAlert').message = BackendMessage(r)]_vars

\* ---- C6
\* C6: for every endpoint response {success:false} carrying error_message
\* or error, the surfaced message is that string (error_message before
\* error) and any suggestions list of the backend is surfaced with it: the
\* page's text, voice, image-analysis and image-generation calls, the
\* manual handler's detection and generation calls, the scanner's analysis
\* and generation calls.
C6_ErrorsSurfacedVerbatim ==
    [][/\ \A i \in DOMAIN pageTasks, r \in GenResponses \cup PageAnalysisResponses :
            (/\ FailureBody(r)
             /\ ~IsNull(BackendMessage(r))
             /\ \/ TextResponse(i, r)
                \/ VoiceResponse(i, r)
                \/ ImageResponse(i, r)
                \/ ImageGenResponse(i, r))
            => /\ ErrorViewShown'
               /\ ErrorViewMessage' = BackendMessage(r)
               /\ ~IsNull(r.suggestions) => ErrorViewSuggestions' = r.suggestions
       /\ \A i \in DOMAIN manualTasks, r \in GenResponses \cup DetectResponses :
            (/\ FailureBody(r)
             /\ ~IsNull(BackendMessage(r))
             /\ \/ r \in GenResponses /\ SubmitParsed(i, r)
                \/ r \in DetectResponses /\ DetectResponse(i, r))
            => /\ ~IsNull(manualAlert')
               /\ Val(manualAlert').text = Val(BackendMessage(r))
               /\ ~IsNull(r.suggestions) => AlertSuggestions = r.suggestions
       /\ \A q \in requests, r \in ScanGenResponses \cup ScanAnalysisResponses :
            (/\ FailureBody(r)
             /\ ~IsNull(BackendMessage(r))
             /\ \/ r \in ScanGenResponses /\ GenerateResponse(q, r)
                \/ r \in ScanAnalysisResponses /\ AnalysisResponse(q, r))
            => /\ ~IsNull(scannerAlert')
               /\ Val(scannerAlert').message = BackendMessage(r)
               /\ ~IsNull(r.suggestions) => AlertSuggestions = r.suggestions]_vars

\* ---- C7
\* generation requests of the page's image workflow in flight
ImageGenerations(tasks) ==
    Cardinality({i \in DOMAIN tasks : tasks[i].kind = "imggen_fetch"})
\* generate-content requests the scanner issues in a step
NewGenerateRequests == {r \in requests' \ requests : r.kind = "generate"}

\* C7 as stated: on the image / camera path no workflow goes from an
\* analysis response directly to a generation request (generate-content or
\* text-to-video); generation waits for the confirmation view and the
\* user's confirmation.
C7_NoDirectGeneration ==
    [][/\ \A i \in DOMAIN pageTasks, r \in PageAnalysisResponses :
            ImageResponse(i, r)
            => ImageGenerations(pageTasks') <= ImageGenerations(pageTasks)
       /\ \A q \in requests, r \in ScanAnalysisResponses :
            AnalysisResponse(q, r) => NewGenerateRequests = {}]_vars

\* C7 amended: in the camera scanner a generate-content request is issued
\* only by the click on Generate Content of a displayed confirmation view,
\* which that click closes, and carries the trimmed text of that view; no
\* other step (the handling of an analysis response included) issues one.
C7_ScannerConfirmsFirst ==
    [][/\ NewGenerateRequests # {}
            => /\ ~IsNull(overlay)
               /\ IsNull(overlay')
               /\ \E cs \in ConfirmedSettings : ProceedWithConfirmedInput(cs)
               /\ \A r \in NewGenerateRequests :
                    Val(r.body).input_text = TrimText(Val(overlay).text)
       /\ NewGenerateRequests = {}
            => \A r \in requests' : r.kind = "generate" => r \in requests]_vars

\* C7 witness: a generate-content request in flight for the candidate the
\* user selected in the confirmation view
C7_Witness ==
    /\ loaded = "scanner"
    /\ IsNull(overlay)
    /\ \E r \in requests :
          /\ r.kind = "generate"
          /\ Val(r.body).input_text.from = "suggested"

\* ---- C8
Distance(a, b) == IF a >= b THEN a - b ELSE b - a
Smaller(a, b) == IF a <= b THEN a ELSE b

\* C8: the second click of a region selection at (x2, y2), after a first
\* click at (x1, y1), submits the rectangle with width = |x2 - x1|,
\* height = |y2 - y1|, x = min(x1, x2), y = min(y1, y2), in either
\* direction and with equal coordinates.
C8_RegionRectangle ==
    [][\A p \in GridPoints :
          (HandleCameraClick(p) /\ isSelecting /\ ~IsNull(selectedRegion))
          => LET x1 == Val(selectedRegion).startX
                 y1 == Val(selectedRegion).startY
             IN  /\ requests' # requests
                 /\ \A r \in requests' \ requests :
                      /\ ~IsNull(r.region)
                      /\ Val(r.region).width = Distance(p[1], x1)
                      /\ Val(r.region).height = Distance(p[2], y1)
                      /\ Val(r.region).x = Smaller(x1, p[1])
                      /\ Val(r.region).y = Smaller(y1, p[2])]_vars

\* C8 witness: (50,50) then (30,80) submitted as x=30, y=50, 20 by 30
C8_Witness ==
    \E r \in requests :
        /\ ~IsNull(r.region)
        /\ Val(r.region) = [startX |-> 50, startY |-> 50, x |-> 30, y |-> 50,
                            width |-> 20, height |-> 30]

\* ---- C9
\* C9: in selection mode a click on the feed with no recorded corner only
\* records the corner and issues no request; the next click issues exactly
\* one process-camera-capture request carrying the computed rectangle,
\* leaves selection mode and resets the stored selection to null.
C9_TwoClickProtocol ==
    [][\A p \in ClickPoints :
          (HandleCameraClick(p) /\ isSelecting)
          => IF IsNull(selectedRegion)
             THEN /\ selectedRegion' = Some([startX |-> p[1], startY |-> p[2]])
                  /\ isSelecting'
                  /\ requests' = requests
                  /\ issued' = issued
             ELSE /\ \E r \in requests' \ requests :
                        /\ requests' = requests \cup {r}
                        /\ r.kind = "camera"
                        /\ r.region = Some(RegionOf(Val(selectedRegion), p))
                  /\ issued' = [issued EXCEPT !.analysis = @ + 1]
                  /\ ~isSelecting'
                  /\ IsNull(selectedRegion')]_vars

\* C9 witness: the request of a completed two-click selection is in flight
\* and selection mode is left
C9_Witness ==
    /\ ~isSelecting
    /\ IsNull(selectedRegion)
    /\ \E r \in requests : r.kind = "camera" /\ ~IsNull(r.region)

\* ---- C10
\* C10: a fresh confirmation view has no card marked; after a click on a
\* card exactly that card is marked selected and the editable text is the
\* suggested_input of that candidate of the analysis the view shows.
C10_OneSelectedCard ==
    [][/\ \A q \in requests, r \in ScanAnalysisResponses :
            (AnalysisResponse(q, r) /\ ~IsNull(overlay'))
            => Val(overlay').selected = {}
       /\ \A card \in AllCards :
            SelectOption(card)
            => /\ Val(overlay').selected = {card}
               /\ Val(overlay').text =
                     [from |-> "suggested", data |-> Val(overlay).data.id,
                      card |-> card, value |-> ""]]_vars

\* ---- C11
\* the URL a result with these URLs is to be played from: the narrated one
\* when both are present, the original one when it is alone
PreferredSource(urls) ==
    IF "narrated" \in urls /\ "original" \in urls THEN Some("narrated")
    ELSE IF "original" \in urls THEN Some("original")
    ELSE NULL
\* does the claim say which URL is played
SourceDetermined(urls) == "original" \in urls

\* C11: in every result renderer (page success view, manual displayResults,
\* scanner showARResults) a successful result with a narrated and an
\* original URL is played from the narrated URL, and one with only the
\* original URL is played from the original URL.
C11_PlayerPrefersNarrated ==
    [][/\ (SuccessViewShown /\ SourceDetermined(Val(result).urls))'
            => (PagePlayerSource = PreferredSource(Val(result).urls))'
       /\ (~IsNull(videoContent) /\ SourceDetermined(Val(videoContent)))'
            => (ManualPlayerSource = PreferredSource(Val(videoContent)))'
       /\ \A i \in DOMAIN timers :
            (/\ TimerFires(i)
             /\ timers[i].kind = "results"
             /\ SourceDetermined(timers[i].urls))
            => /\ ~IsNull(arResults'.video)
               /\ Val(arResults'.video)[1] = Val(PreferredSource(timers[i].urls))
               /\ Val(arResults'.video)[2] = timers[i].id]_vars

\* ---- C12
\* the text-to-video requests in flight
TextRequests(tasks) == {i \in DOMAIN tasks : tasks[i].kind = "text_fetch"}

\* C12: in text mode with non-empty text the Generate action issues one
\* text-to-video request carrying the current text, language and
\* complexity; a response {success: true, video_urls: {original: U}} ends
\* in the success view with a player sourcing U and no link to a narrated
\* alternative.
C12_TextWorkflow ==
    [][/\ (HandleGenerate /\ inputMode = "text" /\ Trim(inputText) # "")
            => /\ Len(pageTasks') = Len(pageTasks) + 1
               /\ Cardinality(TextRequests(pageTasks'))
                     = Cardinality(TextRequests(pageTasks)) + 1
               /\ LET t == pageTasks'[Len(pageTasks')]
                  IN  /\ t.kind = "text_fetch"
                      /\ t.text = inputText
                      /\ t.language = selectedLanguage
                      /\ t.complexity = complexity
       /\ \A i \in DOMAIN pageTasks, r \in GenResponses :
            (/\ TextResponse(i, r)
             /\ r.kind = "json" /\ r.success
             /\ r.urls = {"original"})
            => /\ SuccessViewShown'
               /\ PagePlayerSource' = Some("original")
               /\ PageAlternativeLinks = {}]_vars

\* ---- C13
\* C13: an uploaded image whose analysis answers {success: false, error: E}
\* ends in an error state showing E with at least one suggestion, and every
\* error state an image upload produces carries a non-empty suggestions
\* list (page component image mode, scanner upload input).
C13_UploadFailureShown ==
    [][/\ \A i \in DOMAIN pageTasks, r \in PageAnalysisResponses :
            (ImageResponse(i, r) /\ FailureBody(r) /\ ~IsNull(r.error))
            => /\ ErrorViewShown'
               /\ ErrorViewMessage' = r.error
       /\ \A i \in DOMAIN pageTasks, r \in PageAnalysisResponses \cup GenResponses :
            ((ImageResponse(i, r) \/ ImageGenResponse(i, r)) /\ ErrorViewShown')
            => ~IsNull(ErrorViewSuggestions')
       /\ \A q \in requests, r \in ScanAnalysisResponses :
            (/\ q.kind = "upload"
             /\ AnalysisResponse(q, r)
             /\ FailureBody(r) /\ ~IsNull(r.error))
            => /\ ~IsNull(scannerAlert')
               /\ Val(scannerAlert').message = r.error
               /\ ~IsNull(AlertSuggestions)]_vars

\* ---- C14
\* no recording is under way, starting or waiting for its stop event
AudioQuiescent ==
    /\ ~audioIsRecording
    /\ recorderEvents = {}
    /\ StartsPending = {}
CompletionsOf(n) == {i \in DOMAIN completions : completions[i].recorder = n}
\* C14: the registered completion callback of the audio helper is invoked
\* exactly once per recording, with that recording's blob: never twice for
\* one recording, and once every started recording has been answered by a
\* stopRecording call and the stop events are delivered, each recording
\* begun with a callback registered has its one invocation, whose blob
\* holds the data of that recording only.
C14_OneCallbackPerRecording ==
    /\ \A n \in DOMAIN recorders : Cardinality(CompletionsOf(n)) <= 1
    /\ AudioQuiescent
        => \A n \in DOMAIN recorders :
             recorders[n].cb
             => /\ Cardinality(CompletionsOf(n)) = 1
                /\ \A i \in CompletionsOf(n) :
                     \A k \in DOMAIN completions[i].blob : completions[i].blob[k] = n

\* ---- C16
\* C16: at most one microphone stream of the audio helper is live at any
\* time.
C16_OneLiveMicStream == Cardinality(micStreams) <= 1

\* ---- C15
NewRecorders == {n \in DOMAIN recorders' : n \notin DOMAIN recorders}
\* C15 as stated: startRecording records from a monitoring stream: without
\* a current stream it first calls restartAudioMonitoring and constructs no
\* recorder yet, a recorder is only ever constructed on the current stream,
\* and whenever the monitoring stream startRecording asked for cannot be
\* created the call ends in an error with isRecording false and no
\* recorder recording.
C15_RecordsFromMonitoringStream ==
    [][/\ (StartRecording /\ IsNull(currentStream))
            => /\ NewRecorders = {}
               /\ Cardinality(StartsPending') = Cardinality(StartsPending) + 1
       /\ \A n \in NewRecorders :
            /\ ~IsNull(currentStream')
            /\ recorders'[n].stream = Val(currentStream')
       /\ \A m \in micPending :
            (MonitorSettled(m, FALSE) /\ m.purpose = "start")
            => /\ startErrors' = startErrors + 1
               /\ ~audioIsRecording'
               /\ \A n \in DOMAIN recorders' : recorders'[n].state # "recording"]_vars

\* C15: startRecording records from a monitoring stream: without a current
\* stream it first calls restartAudioMonitoring and constructs no recorder
\* yet, a recorder is only ever constructed on the current stream, and when
\* the monitoring stream cannot be created and there is still no current
\* stream, the call ends in an error, constructs no recorder, and leaves
\* isRecording false with no recorder recording.
C15_ErrorWithoutStream ==
    [][/\ (StartRecording /\ IsNull(currentStream))
            => /\ NewRecorders = {}
               /\ Cardinality(StartsPending') = Cardinality(StartsPending) + 1
       /\ \A n \in NewRecorders :
            /\ ~IsNull(currentStream')
            /\ recorders'[n].stream = Val(currentStream')
       /\ \A m \in micPending :
            (MonitorSettled(m, FALSE) /\ m.purpose = "start" /\ IsNull(currentStream))
            => /\ startErrors' = startErrors + 1
               /\ NewRecorders = {}
               /\ ~audioIsRecording'
               /\ \A n \in DOMAIN recorders' : recorders'[n].state # "recording"]_vars
\* a startRecording call has failed for want of a stream, and a later one
\* records from the monitoring stream it created
C15_Witness ==
    /\ startErrors >= 1
    /\ Len(recorders) >= 1
    /\ ~IsNull(currentStream)
    /\ recorders[1].stream = Val(currentStream)
    /\ audioIsRecording

\* ---- C17
PageFetchKinds == {"text_fetch", "voice_fetch", "image_fetch", "imggen_fetch"}
TasksOfKind(tasks, kinds) == {i \in DOMAIN tasks : tasks[i].kind \in kinds}
\* C17: a user-initiated action of the page component or of the manual
\* input handler has at most one HTTP request in flight at any moment: the
\* requests of one Generate click, of one form submission and of one type
\* detection never overlap, and the text-to-video request of image mode
\* is issued in the step that receives the analysis response.
C17_OneRequestInFlight ==
    [][/\ Cardinality(TasksOfKind(pageTasks', PageFetchKinds)) <= 1
       /\ Cardinality(TasksOfKind(manualTasks', {"gen_fetch", "gen_json"})) <= 1
       /\ Cardinality(TasksOfKind(manualTasks', {"detect_fetch"})) <= 1
       /\ TasksOfKind(pageTasks', {"imggen_fetch"}) # TasksOfKind(pageTasks, {"imggen_fetch"})
            => \/ TasksOfKind(pageTasks', {"imggen_fetch"}) = {}
               \/ /\ TasksOfKind(pageTasks, {"image_fetch"}) # {}
                  /\ TasksOfKind(pageTasks', {"image_fetch"}) = {}]_vars
\* the follow-on request of image mode is in flight
C17_Witness ==
    /\ TasksOfKind(pageTasks, {"imggen_fetch"}) # {}
    /\ isGenerating

\* ---- C18
AnalysisRequests == {r \in requests : r.kind \in {"camera", "upload"}}
C19_NoStalePanel == isGenerating => IsNull(result)

\* ---- C20
\* C20: after stopCamera has returned, the stream is null, no corner of a
\* selection rectangle is recorded and selection mode is off.
C20_StopCameraClearsSelection ==
    [][StopCamera => /\ IsNull(stream')
                     /\ IsNull(selectedRegion')
                     /\ ~isSelecting']_vars

\* ---- C21
\* C21: the scanner's analysisResult and confirmationData are null after
\* stopCamera and after retakePhoto, and the response to an analysis
\* request that was in flight at such a clear neither repopulates them nor
\* opens a confirmation view.
C21_ClearedUntilNewCapture ==
    [][/\ (StopCamera \/ RetakePhoto)
            => IsNull(analysisResult') /\ IsNull(confirmationData')
       /\ \A r \in AnalysisRequests, resp \in ScanAnalysisResponses :
            (AnalysisResponse(r, resp) /\ r.id \in issued.stale)
            => /\ analysisResult' = analysisResult
               /\ confirmationData' = confirmationData
               /\ overlay' = overlay]_vars

\* ---- C22
\* C22: the blob the audio helper delivers for a recording holds chunks of
\* that recording only, whatever the interleaving of stopRecording, a
\* following startRecording and the events of the earlier recorder.
C22_BlobHoldsOwnChunks ==
    \A i \in DOMAIN completions :
        \A k \in DOMAIN completions[i].blob :
            completions[i].blob[k] = completions[i].recorder

\* ---- C23
\* a JSON body delivered with a status outside 2xx
Non2xx(r) == r.kind = "json" /\ ~r.httpOk
\* C23: a response with a non-2xx status is handled as an error whatever
\* its body says: for the scanner's analysis and generation requests, the
\* manual handler's submission and the page component's requests it opens
\* no confirmation view and no result view, clears the loading indicator
\* and shows an alert or an error panel.
C23_Non2xxIsError ==
    [][/\ \A r \in requests, resp \in ScanAnalysisResponses :
            (AnalysisResponse(r, resp) /\ Non2xx(resp))
            => /\ overlay' = overlay
               /\ arLoading' = "none"
               /\ ~IsNull(scannerAlert')
       /\ \A r \in requests, resp \in ScanGenResponses :
            (GenerateResponse(r, resp) /\ Non2xx(resp))
            => /\ timers' = timers
               /\ arLoading' = "none"
               /\ ~IsNull(scannerAlert')
       /\ \A i \in DOMAIN manualTasks, resp \in GenResponses :
            (SubmitParsed(i, resp) /\ Non2xx(resp))
            => /\ loadingDisplay' = "none"
               /\ ~IsNull(manualAlert')
               /\ Len(manualTasks') < Len(manualTasks)
       /\ \A i \in DOMAIN pageTasks, resp \in GenResponses \cup PageAnalysisResponses :
            (/\ \/ TextResponse(i, resp) \/ VoiceResponse(i, resp)
                \/ ImageResponse(i, resp) \/ ImageGenResponse(i, resp)
             /\ Non2xx(resp))
            => /\ ErrorViewShown'
               /\ ~isGenerating'
               /\ Len(pageTasks') < Len(pageTasks)]_vars

\* ---- C24
CameraDeniedAlert ==
    Some([prefix |-> "Camera access denied or not available. Please use image upload instead.",
          message |-> NULL])
C25_ConfirmedInputIsSent ==
    [][/\ \A r \in AnalysisRequests, resp \in ScanAnalysisResponses :
            (AnalysisResponse(r, resp) /\ AnalysisSucceeds(r.kind, resp))
            => /\ Val(overlay').text.from = "default"
               /\ Val(overlay').text.data = r.id
       /\ \A cs \in ConfirmedSettings :
            ProceedWithConfirmedInput(cs)
            => \A r \in requests' \ requests :
                 /\ r.kind = "generate"
                 /\ Val(r.body).input_text = TrimText(Val(overlay).text)
                 /\ ~IsEmptyText(Val(r.body).input_text)
                 /\ Val(r.body).complexity = cs[1]
                 /\ Val(r.body).language = cs[2]]_vars
\* a request is in flight for a card the user selected, with settings the
\* user changed
C25_Witness ==
    \E r \in requests :
        /\ r.kind = "generate"
        /\ Val(r.body).input_text.from = "suggested"
        /\ Val(r.body).complexity = "advanced"
        /\ Val(r.body).language = "hindi"

\* ---- C26
Activated(st, n) == st[n] # "step"
\* C26: a manual form submission advances the five-step indicator in order:
\* showLoading resets all five steps; step k is activated only after steps
\* 1..k-1; step 2 is active while the generate-content request is in
\* flight and step 3 is activated only once its response has arrived; step
\* 5 is activated only for a success body; and all five steps are marked
\* completed before the results are displayed.
C26_StepsInOrder ==
    [][/\ HandleSubmit
            => steps' = [n \in StepNumbers |-> IF n = 1 THEN "active" ELSE "step"]
       /\ \A k \in 2..5 : Activated(steps', k) => Activated(steps', k - 1)
       /\ \A i \in DOMAIN manualTasks' :
            /\ manualTasks'[i].kind = "gen_fetch"
                 => steps'[2] = "active" /\ ~Activated(steps', 3)
            /\ manualTasks'[i].kind = "delay_1" => ~Activated(steps', 2)
       /\ (Activated(steps', 5) /\ ~Activated(steps, 5))
            => \E i \in DOMAIN manualTasks, resp \in GenResponses :
                 /\ resp.kind = "json" /\ resp.success
                 /\ SubmitParsed(i, resp)
       /\ \A i \in DOMAIN manualTasks :
            SubmitDisplay(i) => \A n \in StepNumbers : steps[n] = "completed"]_vars
\* the results are displayed and all five steps are completed
C26_Witness ==
    /\ resultsDisplay = "block"
    /\ ~IsNull(videoContent)
    /\ \A n \in StepNumbers : steps[n] = "completed"

\* ---- C27
\* displayResults writes its warning paragraph when it rendered no video
\* and no link
ManualWarningShown ==
    /\ ~IsNull(videoContent)
    /\ Val(videoContent) \cap {"narrated", "original"} = {}
\* the success view of the page component has no element that warns of a
\* missing video
PageWarningShown == FALSE
\* showARResults leaves #ar-video-placeholder on screen until a video is
\* shown, and never shows it again
ScannerPlaceholderShown == IsNull(arResults.video)
NoVideo(urls) == urls \cap {"narrated", "original"} = {}
\* C27: a successful generation response without a video URL is rendered
\* as a degraded result: in the manual handler, the scanner and the page
\* component the result view is shown with a visible warning, no alert or
\* error panel is raised, and no video of an earlier generation is shown.
C27_DegradedResult ==
    [][/\ \A i \in DOMAIN manualTasks :
            (SubmitDisplay(i) /\ NoVideo(manualTasks[i].urls))
            => /\ resultsDisplay' = "block"
               /\ ManualWarningShown'
               /\ IsNull(ManualPlayerSource')
               /\ IsNull(manualAlert')
       /\ \A i \in DOMAIN timers :
            (TimerFires(i) /\ timers[i].kind = "results" /\ NoVideo(timers[i].urls))
            => /\ arResults'.display = "flex"
               /\ ScannerPlaceholderShown'
               /\ IsNull(arResults'.video)
               /\ IsNull(scannerAlert')
       /\ \A i \in DOMAIN pageTasks, resp \in GenResponses :
            (/\ \/ TextResponse(i, resp) \/ VoiceResponse(i, resp)
                \/ ImageGenResponse(i, resp)
             /\ resp.kind = "json" /\ resp.success /\ resp.urls = {})
            => /\ SuccessViewShown'
               /\ PageWarningShown'
               /\ IsNull(PagePlayerSource')]_vars

\* ---- C28
\* C28: after a successful type detection the complexity selector equals
\* the detected complexity_hint when the hint is present and is not
\* 'intermediate', and is unchanged otherwise; a failed detection leaves
\* the selector and the detection panel unchanged.
C28_SelectorFollowsHint ==
    [][\A i \in DOMAIN manualTasks, resp \in DetectResponses :
         DetectResponse(i, resp)
         => IF resp.kind = "json" /\ resp.success
            THEN /\ detectionDisplay' = "block"
                 /\ (resp.complexity_hint \notin {"", "intermediate"})
                       => complexitySelect' = resp.complexity_hint
                 /\ (resp.complexity_hint \in {"", "intermediate"})
                       => complexitySelect' = complexitySelect
            ELSE /\ complexitySelect' = complexitySelect
                 /\ detectionDisplay' = detectionDisplay]_vars
\* a detection has been displayed while the selector holds a value other
\* than the default
C28_Witness ==
    /\ detectionDisplay = "block"
    /\ complexitySelect = "advanced"
    /\ manualTasks = <<>>
    /\ IsNull(manualAlert)

\* ---- C29
\* C29: the waveform redraw loop is never cancelled: every
\* restartAudioMonitoring that acquires its stream and finds the canvas
\* starts one more loop and no step lowers the number of loops, also when
\* the audio context a loop was started for is closed; with every request
\* granted and no recording started there is one loop per
\* restartAudioMonitoring call, k + 1 after construction and k
\* device-selection changes.
C29_RedrawLoopsAccumulate ==
    [][/\ redrawLoops' >= redrawLoops
       /\ \A m \in micPending :
            (MonitorSettled(m, TRUE) /\ deviceSelector)
            => redrawLoops' = redrawLoops + 1
       /\ (/\ deviceSelector' /\ micPending' = {}
           /\ Cardinality(micStreams') = micCalls'
           /\ recorders' = <<>> /\ startErrors' = 0)
            => redrawLoops' = micCalls' - 1]_vars
\* two loops run although at most one audio context is open
C29_Witness ==
    /\ redrawLoops = 2
    /\ Cardinality(openContexts) <= 1
    /\ micPending = {}
    /\ micCalls = 3 /\ Cardinality(micStreams) = 3
    /\ recorders = <<>> /\ startErrors = 0

\* ---- C30
\* C30: whenever the confirmation view is displayed, confirmationData is
\* non-null and is the data the view was rendered from, so that a click on
\* a card can read the candidate's suggested_input.
C30_OverlayHasItsData ==
    ~IsNull(overlay)
    => /\ ~IsNull(confirmationData)
       /\ Val(confirmationData) = Val(overlay).data

\* ---- C31
\* C31: whenever the scanner is not in selection mode the stored selection
\* is null, so a feed click after re-entering selection mode is never paired
\* with a start corner recorded before the mode was left.
C31_NoSelectionOutsideMode ==
    ~isSelecting => IsNull(selectedRegion)

\* ---- C32
\* C32: while a generate-content request of the scanner is in flight the
\* loading overlay is visible: neither a delayed hide of an earlier analysis
\* or generation nor the completion of another request hides it before the
\* request's response has been handled.
C32_LoadingWhileGenerating ==
    (\E r \in requests : r.kind = "generate") => arLoading # "none"

\* ---- C33
\* C33: the loading overlay of the scanner never stays stuck: once every
\* request has completed, whatever its outcome, and every scheduled timer
\* has fired, the loading overlay is hidden.
C33_LoadingEndsHidden ==
    (requests = {} /\ timers = <<>>) => arLoading = "none"

\* a generation failed after a successful analysis and nothing is pending
C33_Witness ==
    /\ requests = {} /\ timers = <<>>
    /\ issued.analysis >= 1 /\ issued.generate >= 1
    /\ ~IsNull(scannerAlert)
    /\ Val(scannerAlert).prefix = "Content generation failed: "
    /\ arLoading = "none"

\* ---- C34
\* C34: in voice mode of the page component a generation is never started
\* while a recording is in progress and the audio it reads is the blob of
\* the most recently started recording, completed: starting a new recording
\* invalidates the audio recorded before.
C34_GenerateUsesLatestRecording ==
    [][/\ (HandleGenerate /\ inputMode = "voice")
            => /\ ~isRecording
               /\ recordedAudio = Some(mediaRecorder)
       /\ (PageStartRecording(TRUE) /\ isRecording')
            => IsNull(recordedAudio')]_vars

\* ---- C35
\* C35: at most one generation workflow of the page component is in
\* progress: isGenerating is true as long as a step of a workflow is
\* pending, Generate does nothing while isGenerating is true, and so no two
\* workflow steps are pending together, also when the input mode is
\* switched during a generation.
C35_OneWorkflowAtATime ==
    [][/\ pageTasks' # <<>> => isGenerating'
       /\ Len(pageTasks') <= 1
       /\ isGenerating => ~HandleGenerate]_vars

\* a text generation is in flight after a switch to image mode with an
\* image chosen
C35_Witness ==
    /\ TasksOfKind(pageTasks, {"text_fetch"}) # {}
    /\ inputMode = "image"
    /\ ~IsNull(selectedImage)
    /\ isGenerating

\* ---- C36
\* C36: in every state between handlers of the scanner the capture,
\* select-region and stop controls are visible and the start control is
\* hidden exactly when this.stream is non-null, whatever the interleaving of
\* startCamera, its success or failure, and stopCamera.
C36_ControlsFollowStream ==
    IF IsNull(stream)
    THEN controls = StoppedControls
    ELSE controls = RunningControls

\* the camera runs, Stop Camera is available, and an earlier startCamera
\* call is still pending
C36_Witness ==
    /\ ~IsNull(stream)
    /\ controls.stop # "none"
    /\ pendingMedia # {}

\* ---- C37
EmptyInputAlert ==
    Some([prefix |-> "Please enter or select content to proceed",
          message |-> NULL])
\* C37: a click on Generate Content with an editable input that is empty or
\* whitespace-only issues no request and changes no state: the confirmation
\* view stays open with its content, the loading overlay is not shown, and
\* only an alert is raised.
C37_EmptyInputChangesNothing ==
    [][\A cs \in ConfirmedSettings :
         (/\ ProceedWithConfirmedInput(cs)
          /\ Val(overlay).text.from = "typed"
          /\ Trim(Val(overlay).text.value) = "")
         => /\ overlay' = overlay
            /\ requests' = requests
            /\ issued' = issued
            /\ arLoading' = arLoading
            /\ timers' = timers
            /\ arResults' = arResults
            /\ analysisResult' = analysisResult
            /\ confirmationData' = confirmationData
            /\ scannerAlert' = EmptyInputAlert]_vars

\* the alert is up over the confirmation view that holds a blank input
C37_Witness ==
    /\ scannerAlert = EmptyInputAlert
    /\ ~IsNull(overlay)
    /\ Val(overlay).text.from = "typed"
    /\ Val(overlay).text.value = " "
    /\ requests = {}

\* ---- C38
DetectInFlight(tasks) == TasksOfKind(tasks, {"detect_fetch"}) # {}
\* the catch block of detectInputType is at its alert: the handler has not
\* reached its finally block yet
DetectAlertOpen(a) == ~IsNull(a) /\ Val(a).then = "detect_finally"
\* C38: detectInputType issues no request when the trimmed input is empty;
\* otherwise the detect button is disabled from the click until the handler
\* of the response has finished, so that two detection requests are never
\* in flight together, and it is enabled again with its original label
\* after every outcome.
C38_DetectButtonGuardsRequest ==
    [][/\ (DetectInputType /\ Trim(manualText) = "")
            => /\ manualTasks' = manualTasks
               /\ detectBtn' = detectBtn
       /\ (DetectInputType /\ Trim(manualText) # "")
            => /\ DetectInFlight(manualTasks')
               /\ detectBtn'.disabled
       /\ detectBtn'.disabled
            <=> (DetectInFlight(manualTasks') \/ DetectAlertOpen(manualAlert'))
       /\ Cardinality(TasksOfKind(manualTasks', {"detect_fetch"})) <= 1
       /\ ~detectBtn'.disabled => detectBtn'.textContent = DetectLabel]_vars

\* a detection has succeeded and the button is available again
C38_Witness ==
    /\ detectionDisplay = "block"
    /\ ~DetectInFlight(manualTasks)
    /\ ~detectBtn.disabled
    /\ detectBtn.textContent = DetectLabel
    /\ detectBtn.display # "none"

====
